---- MODULE Spec2Model ----
(***************************************************************************)
(* Model of repkg-rs: the PKG package reader, the TEX texture reader, the  *)
(* mipmap decompressor and the texture-to-image converter.                 *)
(*                                                                         *)
(* Byte streams are sequences of naturals 0..255; stream offsets are       *)
(* 0-based as in std::io::Cursor, so the byte at offset p is data[p + 1].  *)
(* One run exercises one component, named by the variable comp.            *)
(***************************************************************************)
EXTENDS Integers, Sequences, FiniteSets, TLC

VARIABLES
    comp,    \* component under exercise: "dec", "pkg" or "tex"
    pc,      \* position of the run
    mip,     \* decompressor: the TexMipmap being mutated in place
    mip0,    \* decompressor: the mipmap as it was before the first call
    mip1,    \* decompressor: the mipmap as the first call left it
    dres,    \* decompressor: result of each call so far (sequence of "Ok" / error kind)
    data,    \* readers: the input byte stream
    mode,    \* readers: the reader configuration
    rd,      \* readers: outcome of read_from (error kind, cursor, trace of guarded fields)
    pkg,     \* PackageReader: the Package returned, or None
    tex,     \* TexReader: the Tex returned, or None
    conv,    \* converter: result of convert(tex, recommended_format(tex)), or None
    call,    \* a function of the converter called on its own: arguments and result
    cli      \* the command-line program: arguments, files, workers, outcome

vars == <<comp, pc, mip, mip0, mip1, dres, data, mode, rd, pkg, tex, conv, call, cli>>

None == [none |-> TRUE]

\* Option<Vec<u8>>
NoBytes == [some |-> FALSE, v |-> <<>>]

SomeBytes(b) == [some |-> TRUE, v |-> b]

(***************************************************************************)
(* Integer helpers.  TLC integers are 32-bit signed: a u32 of 2^31 or more *)
(* is represented by U32Top, which compares like the real value against    *)
(* every cap and every stream length of the model.                         *)
(***************************************************************************)
U32Top == 2147483647

Min(a, b) == IF a <= b THEN a ELSE b

\* usize product, saturating at U32Top instead of overflowing the checker's integers
Mul(a, b) == IF a = 0 \/ b = 0 THEN 0
             ELSE IF a > U32Top \div b THEN U32Top ELSE a * b

Add(a, b) == IF a > U32Top - b THEN U32Top ELSE a + b

DivCeil4(n) == (n \div 4) + (IF n % 4 = 0 THEN 0 ELSE 1)

Repeat(x, n) == [i \in 1..n |-> x]

Take(s, n) == SubSeq(s, 1, Min(n, Len(s)))

\* CHOOSE ret \in {body : x \in {e}} : TRUE is body with x bound to the value of e: a
\* `let x = e;` written with the binding below its scope, and with e evaluated once,
\* however often body mentions x

(***************************************************************************)
(* MipmapFormat (repkg-core enums.rs)                                      *)
(***************************************************************************)
MipmapFormats ==
    {"Invalid", "RGBA8888", "R8", "RG88",
     "CompressedDXT5", "CompressedDXT3", "CompressedDXT1", "VideoMp4",
     "ImageBMP", "ImageJPEG", "ImagePNG", "ImageGIF", "ImageTGA", "ImageDDS",
     "ImageTIFF", "ImageWEBP"}

is_compressed(f) == f \in {"CompressedDXT1", "CompressedDXT3", "CompressedDXT5"}

is_raw(f) == f \in {"RGBA8888", "R8", "RG88"}

is_image(f) == f \in {"ImageBMP", "ImageJPEG", "ImagePNG", "ImageGIF", "ImageTGA",
                      "ImageDDS", "ImageTIFF", "ImageWEBP"}

\* Option<u32>: 0 stands for None
bytes_per_pixel(f) == CASE f = "RGBA8888" -> 4
                        [] f = "R8" -> 1
                        [] f = "RG88" -> 2
                        [] OTHER -> 0

has_data(m) == Len(m.bytes) > 0

(***************************************************************************)
(* LZ4 block format with explicit output capacity, as decoded by           *)
(* lz4_flex::decompress(input, min_uncompressed_size).  A result is        *)
(* [ok |-> BOOLEAN, out |-> bytes].                                        *)
(***************************************************************************)
Lz4Err == [ok |-> FALSE, out |-> <<>>]

\* the 255-continued length extension; p is the offset of the first extension byte
RECURSIVE Lz4ReadInteger(_, _)
Lz4ReadInteger(inp, p) ==
    IF p >= Len(inp) THEN [ok |-> FALSE, n |-> 0, p |-> p]
    ELSE IF inp[p + 1] = 255
         THEN CHOOSE ret \in {
                  [ok |-> t.ok, n |-> Add(255, t.n), p |-> t.p]
                : t \in {Lz4ReadInteger(inp, p + 1)}} : TRUE
         ELSE [ok |-> TRUE, n |-> inp[p + 1], p |-> p + 1]

\* overlapping match copy: n bytes starting offset bytes back
Lz4Duplicate(out, offset, n) ==
    out \o [i \in 1..n |-> out[Len(out) - offset + 1 + ((i - 1) % offset)]]

RECURSIVE Lz4Loop(_, _, _, _)
Lz4Loop(inp, ip, out, cap) ==
    IF ip >= Len(inp) THEN Lz4Err
    ELSE
    CHOOSE ret \in {
    LET token  == inp[ip + 1]
        litlen == Add(token \div 16, litx.n)
        lp     == litx.p
        mp     == lp + litlen
    IN  IF ~litx.ok THEN Lz4Err
        ELSE IF lp + litlen > Len(inp) THEN Lz4Err          \* LiteralOutOfBounds
        ELSE IF Len(out) + litlen > cap THEN Lz4Err         \* OutputTooSmall
        ELSE
        CHOOSE ret \in {
            IF mp >= Len(inp) THEN [ok |-> TRUE, out |-> out1]   \* end of block
            ELSE IF mp + 2 > Len(inp) THEN Lz4Err
            ELSE
            CHOOSE ret \in {
            LET offset == inp[mp + 1] + 256 * inp[mp + 2]
                mlen   == Add(4 + (token % 16), mlx.n)
            IN  IF ~mlx.ok THEN Lz4Err
                ELSE IF offset = 0 \/ offset > Len(out1) THEN Lz4Err   \* OffsetOutOfBounds
                ELSE IF Len(out1) + mlen > cap THEN Lz4Err             \* OutputTooSmall
                ELSE Lz4Loop(inp, mlx.p, Lz4Duplicate(out1, offset, mlen), cap)
              : mlx \in {IF token % 16 = 15 THEN Lz4ReadInteger(inp, mp + 2)
                          ELSE [ok |-> TRUE, n |-> 0, p |-> mp + 2]}} : TRUE
          : out1 \in {out \o SubSeq(inp, lp + 1, lp + litlen)}} : TRUE
      : litx \in {IF inp[ip + 1] \div 16 = 15 THEN Lz4ReadInteger(inp, ip + 1)
                   ELSE [ok |-> TRUE, n |-> 0, p |-> ip + 1]}} : TRUE

lz4_decompress(inp, min_uncompressed_size) == Lz4Loop(inp, 0, <<>>, min_uncompressed_size)

(***************************************************************************)
(* Block decoding (texture2ddecoder::decode_bc1 / decode_bc3): the decoder *)
(* refuses a payload shorter than the block grid and otherwise fills one   *)
(* u32 per pixel.  The pixel values are a function of the block data that  *)
(* the model does not interpret further: pixel i takes the i-th payload    *)
(* byte (cyclically) in each of its three colour bytes, alpha 255.         *)
(***************************************************************************)
BlockBytes(f) == IF f = "CompressedDXT1" THEN 8 ELSE 16

BlockGridBytes(f, width, height) == Mul(Mul(DivCeil4(width), DivCeil4(height)), BlockBytes(f))

decode_bc(f, bytes, width, height) ==
    IF Len(bytes) < BlockGridBytes(f, width, height)
    THEN [ok |-> FALSE, px |-> <<>>]
    ELSE [ok |-> TRUE,
          px |-> [i \in 1..Mul(width, height) |->
                    LET b == IF Len(bytes) = 0 THEN 0 ELSE bytes[((i - 1) % Len(bytes)) + 1]
                    IN  <<b, b, b, 255>>]]

\* Each pixel is kept as its four bytes, lowest first.
u32_to_rgba_bytes(pixels) ==
    [i \in 1..4 * Len(pixels) |-> pixels[((i - 1) \div 4) + 1][((i - 1) % 4) + 1]]

(***************************************************************************)
(* MipmapDecompressor (repkg texture/decompressor.rs).  Each operation     *)
(* returns [err |-> "" or the error kind, details |-> the error's text,    *)
(* m |-> the mipmap afterwards].                                           *)
(***************************************************************************)
\* the text of lz4_flex's error, whatever the library words it as
Lz4Message == "lz4_flex::block::DecompressError"

\* the text before the block decoder's own error
DecodeFailed(f) == IF f = "CompressedDXT1" THEN "DXT1/BC1 decompression failed"
                   ELSE "DXT5/BC3 decompression failed"

\* the LZ4 block is decoded but the flag is left set
decompress_lz4_KeepFlag(m) ==
    IF m.decompressed_bytes_count = 0 THEN [err |-> "", details |-> "", m |-> m]
    ELSE CHOOSE ret \in {
             IF ~d.ok THEN [err |-> "Lz4Decompression", details |-> Lz4Message, m |-> m]
             ELSE [err |-> "", details |-> "", m |-> [m EXCEPT !.bytes = d.out]]
           : d \in {lz4_decompress(m.bytes, m.decompressed_bytes_count)}} : TRUE

decompress_lz4(m) ==
    IF m.decompressed_bytes_count = 0 THEN [err |-> "", details |-> "", m |-> m]
    ELSE CHOOSE ret \in {
             IF ~d.ok THEN [err |-> "Lz4Decompression", details |-> Lz4Message, m |-> m]
             ELSE [err |-> "", details |-> "",
                   m |-> [m EXCEPT !.bytes = d.out, !.is_lz4_compressed = FALSE]]
           : d \in {lz4_decompress(m.bytes, m.decompressed_bytes_count)}} : TRUE

\* BC2 blocks are decoded as BC3 blocks are
decompress_dxt_Bc2Decoded(m) ==
    IF m.format \in {"CompressedDXT1", "CompressedDXT3", "CompressedDXT5"}
    THEN CHOOSE ret \in {
             IF ~d.ok THEN [err |-> "DxtDecompression", details |-> DecodeFailed(m.format),
                            m |-> m]
             ELSE [err |-> "", details |-> "",
                   m |-> [m EXCEPT !.bytes = u32_to_rgba_bytes(d.px), !.format = "RGBA8888"]]
           : d \in {decode_bc(m.format, m.bytes, m.width, m.height)}} : TRUE
    ELSE [err |-> "", details |-> "", m |-> m]

decompress_dxt(m) ==
    IF m.format \in {"CompressedDXT1", "CompressedDXT5"}
    THEN CHOOSE ret \in {
             IF ~d.ok THEN [err |-> "DxtDecompression", details |-> DecodeFailed(m.format),
                            m |-> m]
             ELSE [err |-> "", details |-> "",
                   m |-> [m EXCEPT !.bytes = u32_to_rgba_bytes(d.px), !.format = "RGBA8888"]]
           : d \in {decode_bc(m.format, m.bytes, m.width, m.height)}} : TRUE
    ELSE IF m.format = "CompressedDXT3"
    THEN [err |-> "DxtDecompression", details |-> "DXT3/BC2 decompression not yet supported",
          m |-> m]
    ELSE [err |-> "", details |-> "", m |-> m]

\* a failing call hands the mipmap back as it got it
decompress_AllOrNothing(m) ==
    CHOOSE ret \in {
        IF a.err # "" THEN a
        ELSE IF is_compressed(a.m.format)
        THEN CHOOSE ret \in {
                 IF b.err # "" THEN [b EXCEPT !.m = m] ELSE b
               : b \in {decompress_dxt(a.m)}} : TRUE
        ELSE a
      : a \in {IF m.is_lz4_compressed THEN decompress_lz4(m)
               ELSE [err |-> "", details |-> "", m |-> m]}} : TRUE

decompress(m) ==
    CHOOSE ret \in {
        IF a.err # "" THEN a
        ELSE IF is_compressed(a.m.format) THEN decompress_dxt(a.m)
        ELSE a
      : a \in {IF m.is_lz4_compressed THEN decompress_lz4(m) ELSE [err |-> "", details |-> "", m |-> m]}} : TRUE

(***************************************************************************)
(* Reading from a std::io::Cursor.  A cursor state is                      *)
(*   [pos, err, details, short, log]                                       *)
(* err is "" until an operation fails and then names the Error variant,    *)
(* details holding the text a decompression error carries;                 *)
(* once set, every later read is skipped (the ? operator).  short records  *)
(* that a read ran past the end of the input.  log is the trace of the     *)
(* guarded fields read, the buffers allocated and the length probes made,  *)
(* each [f |-> what, v |-> value, at |-> offset, aux |-> extra].           *)
(***************************************************************************)
Cursor0 == [pos |-> 0, err |-> "", details |-> "", short |-> FALSE, log |-> <<>>]

Fail(r, kind) == IF r.err # "" THEN r ELSE [r EXCEPT !.err = kind]

\* an error of the decompressor, returned through `?` with its text
FailWith(r, kind, details) ==
    IF r.err # "" THEN r ELSE [r EXCEPT !.err = kind, !.details = details]

\* std::io::Error of kind UnexpectedEof, converted by `?` through #[from]
FailEof(r) == IF r.err # "" THEN r ELSE [r EXCEPT !.err = "Io", !.short = TRUE]

Note(r, f, v, aux) ==
    IF r.err # "" THEN r
    ELSE [r EXCEPT !.log = Append(@, [f |-> f, v |-> v, at |-> r.pos, aux |-> aux])]

U32At(d, p) ==
    IF d[p + 4] >= 128 THEN U32Top
    ELSE d[p + 1] + 256 * d[p + 2] + 65536 * d[p + 3] + 16777216 * d[p + 4]

I32At(d, p) ==
    d[p + 1] + 256 * d[p + 2] + 65536 * d[p + 3]
    + 16777216 * (IF d[p + 4] >= 128 THEN d[p + 4] - 256 ELSE d[p + 4])

\* read_u32::<LittleEndian>() / read_i32::<LittleEndian>(): [r |-> cursor, v |-> value]
read_u32(d, r) ==
    IF r.err # "" THEN [r |-> r, v |-> 0]
    ELSE IF r.pos + 4 > Len(d) THEN [r |-> FailEof(r), v |-> 0]
    ELSE [r |-> [r EXCEPT !.pos = @ + 4], v |-> U32At(d, r.pos)]

read_i32(d, r) ==
    IF r.err # "" THEN [r |-> r, v |-> 0]
    ELSE IF r.pos + 4 > Len(d) THEN [r |-> FailEof(r), v |-> 0]
    ELSE [r |-> [r EXCEPT !.pos = @ + 4], v |-> I32At(d, r.pos)]

\* vec![0u8; n] followed by read_exact: [r |-> cursor, v |-> the bytes]
read_exact(d, r, n) ==
    IF r.err # "" THEN [r |-> r, v |-> <<>>]
    ELSE LET r1 == Note(r, "alloc", n, 0)
         IN  IF n > 0 /\ r.pos + n > Len(d) THEN [r |-> FailEof(r1), v |-> <<>>]
             ELSE [r |-> [r1 EXCEPT !.pos = @ + n],
                   v |-> IF n = 0 THEN <<>> ELSE SubSeq(d, r.pos + 1, r.pos + n)]

\* n four-byte reads in a row (read_u32, read_i32, read_f32), stopping at the first
\* that fails: [r |-> cursor, v |-> the n fields, each as its four bytes, lowest first];
\* a field that was not read is four zero bytes
read_fields(d, r, n) ==
    IF r.err # "" THEN [r |-> r, v |-> [i \in 1..n |-> <<0, 0, 0, 0>>]]
    ELSE LET got == Min(n, IF r.pos >= Len(d) THEN 0 ELSE (Len(d) - r.pos) \div 4)
         IN  [r |-> IF got < n THEN FailEof([r EXCEPT !.pos = @ + 4 * got])
                    ELSE [r EXCEPT !.pos = @ + 4 * n],
              v |-> [i \in 1..n |-> IF i <= got THEN SubSeq(d, r.pos + 4 * i - 3, r.pos + 4 * i)
                                    ELSE <<0, 0, 0, 0>>]]

U32(b) == U32At(b, 0)

I32(b) == I32At(b, 0)

(***************************************************************************)
(* String::from_utf8: well-formed UTF-8 (RFC 3629).                        *)
(***************************************************************************)
IsCont(b) == b >= 128 /\ b <= 191

\* the length of the sequence a leading byte opens, 0 for a byte that opens none
Utf8Width(b) ==
    IF b < 128 THEN 1
    ELSE IF b >= 194 /\ b <= 223 THEN 2
    ELSE IF b >= 224 /\ b <= 239 THEN 3
    ELSE IF b >= 240 /\ b <= 244 THEN 4
    ELSE 0

\* every continuation byte closes a sequence opened at most three bytes back, and every
\* other byte opens a sequence that is complete and neither overlong nor a surrogate
from_utf8_ok(s) ==
    \A i \in 1..Len(s) :
        IF IsCont(s[i])
        THEN \E k \in 1..3 : /\ i - k >= 1
                             /\ Utf8Width(s[i - k]) > k
                             /\ \A m \in 1..(k - 1) : IsCont(s[i - m])
        ELSE /\ Utf8Width(s[i]) # 0
             /\ i + Utf8Width(s[i]) - 1 <= Len(s)
             /\ \A m \in 1..(Utf8Width(s[i]) - 1) : IsCont(s[i + m])
             /\ (s[i] = 224 => s[i + 1] >= 160)
             /\ (s[i] = 237 => s[i + 1] <= 159)
             /\ (s[i] = 240 => s[i + 1] >= 144)
             /\ (s[i] = 244 => s[i + 1] <= 143)

(***************************************************************************)
(* Package reader (repkg package/reader.rs, repkg-core package.rs)         *)
(***************************************************************************)
MAX_MAGIC_LENGTH == 64
MAX_PATH_LENGTH == 4096
MAX_ENTRY_COUNT == 100000

to_lowercase(s) == [i \in 1..Len(s) |-> IF s[i] >= 65 /\ s[i] <= 90 THEN s[i] + 32 ELSE s[i]]

ends_with(s, suf) ==
    Len(s) >= Len(suf) /\ SubSeq(s, Len(s) - Len(suf) + 1, Len(s)) = suf

starts_with(s, pre) == Len(s) >= Len(pre) /\ SubSeq(s, 1, Len(pre)) = pre

\* ".tex", ".json", ".vert", ".frag"
EntryType_from_path(path) ==
    LET lower == to_lowercase(path)
    IN  IF ends_with(lower, <<46, 116, 101, 120>>) THEN "Tex"
        ELSE IF ends_with(lower, <<46, 106, 115, 111, 110>>) THEN "Json"
        ELSE IF ends_with(lower, <<46, 118, 101, 114, 116>>)
                \/ ends_with(lower, <<46, 102, 114, 97, 103>>) THEN "Shader"
        ELSE "Other"

\* [r |-> cursor, v |-> the string]; what names the length field in the trace
\* the length is not compared with max_length at all
read_length_prefixed_string_NoCap(d, r, max_length, what) ==
    CHOOSE ret \in {
    LET r1 == Note(len.r, what, len.v, max_length)
    IN  IF r1.err # "" THEN [r |-> r1, v |-> <<>>]
        ELSE CHOOSE ret \in {
                 IF b.r.err # "" THEN [r |-> b.r, v |-> <<>>]
                 ELSE IF ~from_utf8_ok(b.v) THEN [r |-> Fail(b.r, "StringEncoding"), v |-> <<>>]
                 ELSE b
               : b \in {read_exact(d, r1, len.v)}} : TRUE
      : len \in {read_u32(d, r)}} : TRUE

read_length_prefixed_string(d, r, max_length, what) ==
    CHOOSE ret \in {
    LET r1 == Note(len.r, what, len.v, max_length)
    IN  IF r1.err # "" THEN [r |-> r1, v |-> <<>>]
        ELSE IF len.v > max_length THEN [r |-> Fail(r1, "SafetyLimit"), v |-> <<>>]
        ELSE CHOOSE ret \in {
                 IF b.r.err # "" THEN [r |-> b.r, v |-> <<>>]
                 ELSE IF ~from_utf8_ok(b.v) THEN [r |-> Fail(b.r, "StringEncoding"), v |-> <<>>]
                 ELSE b
               : b \in {read_exact(d, r1, len.v)}} : TRUE
      : len \in {read_u32(d, r)}} : TRUE

\* the directory loop of read_from: k entries still to read
RECURSIVE PkgReadEntries(_, _, _, _)
PkgReadEntries(d, r, k, acc) ==
    IF k = 0 \/ r.err # "" THEN [r |-> r, v |-> acc]
    ELSE
    CHOOSE ret \in {
    CHOOSE ret \in {
    LET offset == U32(f.v[1])
        length == U32(f.v[2])
        entry  == [full_path |-> path.v, offset |-> offset, length |-> length,
                   bytes |-> NoBytes, entry_type |-> EntryType_from_path(path.v)]
    IN  IF f.r.err # "" THEN [r |-> f.r, v |-> acc]
        ELSE PkgReadEntries(d, f.r, k - 1, Append(acc, entry))
      : f \in {read_fields(d, path.r, 2)}} : TRUE
      : path \in {read_length_prefixed_string(d, r, MAX_PATH_LENGTH, "path_len")}} : TRUE

\* the seek goes to entry.offset from the start of the file, not of the data section
RECURSIVE PkgReadBytes_FromFileStart(_, _, _, _, _)
PkgReadBytes_FromFileStart(d, r, data_start, entries, i) ==
    IF i > Len(entries) \/ r.err # "" THEN [r |-> r, v |-> entries]
    ELSE
    CHOOSE ret \in {
        IF b.r.err # "" THEN [r |-> b.r, v |-> entries]
        ELSE PkgReadBytes_FromFileStart(d, b.r, data_start,
                          [entries EXCEPT ![i].bytes = SomeBytes(b.v)], i + 1)
      : b \in {read_exact(d, [r EXCEPT !.pos = entries[i].offset],
                           entries[i].length)}} : TRUE

\* the payload loop of read_from: entries i.. still to load
RECURSIVE PkgReadBytes(_, _, _, _, _)
PkgReadBytes(d, r, data_start, entries, i) ==
    IF i > Len(entries) \/ r.err # "" THEN [r |-> r, v |-> entries]
    ELSE
    CHOOSE ret \in {
        IF b.r.err # "" THEN [r |-> b.r, v |-> entries]
        ELSE PkgReadBytes(d, b.r, data_start,
                          [entries EXCEPT ![i].bytes = SomeBytes(b.v)], i + 1)
      : b \in {read_exact(d, [r EXCEPT !.pos = Add(data_start, entries[i].offset)],
                           entries[i].length)}} : TRUE

\* PackageReader::read_from: [r |-> cursor, v |-> Package or None, data_start |-> offset]
PackageReader_read_from(d, read_entry_bytes) ==
    CHOOSE ret \in {
    LET package_start == 0
        rm == IF magic.r.err = "" /\ ~starts_with(magic.v, <<80, 75, 71, 86>>)
              THEN Fail(magic.r, "InvalidPkgMagic") ELSE magic.r
    IN
    CHOOSE ret \in {
    LET rc0 == Note(count.r, "entry_count", count.v, MAX_ENTRY_COUNT)
        rc  == IF rc0.err = "" /\ count.v > MAX_ENTRY_COUNT
               THEN Fail(rc0, "SafetyLimit") ELSE rc0
    IN
    CHOOSE ret \in {
    LET data_start  == dir.r.pos
        header_size == data_start - package_start
    IN
    CHOOSE ret \in {
        [r |-> loaded.r,
         data_start |-> data_start,
         v |-> IF loaded.r.err # "" THEN None
               ELSE [magic |-> magic.v, header_size |-> header_size, entries |-> loaded.v]]
      : loaded \in {IF read_entry_bytes
                     THEN PkgReadBytes(d, dir.r, data_start, dir.v, 1)
                     ELSE dir}} : TRUE
      : dir \in {PkgReadEntries(d, Note(rc, "reserve", count.v, 0), count.v, <<>>)}} : TRUE
      : count \in {read_u32(d, rm)}} : TRUE
      : magic \in {read_length_prefixed_string(d, Cursor0, MAX_MAGIC_LENGTH, "magic_len")}} : TRUE

RECURSIVE SumLengths(_, _)
SumLengths(entries, i) ==
    IF i > Len(entries) THEN 0 ELSE Add(entries[i].length, SumLengths(entries, i + 1))

total_data_size(p) == SumLengths(p.entries, 1)

(***************************************************************************)
(* TEX enums (repkg-core texture/enums.rs)                                 *)
(***************************************************************************)
\* TexFormat::from(u32): the tag and, as Unknown(v) carries it, the raw value
TexFormat_from(v) ==
    [tag |-> CASE v = 0 -> "RGBA8888"
               [] v = 4 -> "DXT5"
               [] v = 6 -> "DXT3"
               [] v = 7 -> "DXT1"
               [] v = 8 -> "R8"
               [] v = 9 -> "RG88"
               [] OTHER -> "Unknown",
     v |-> v]

\* TexFlags::from_bits_truncate keeps the eight defined bits: the lowest byte
IS_GIF == 4
IS_VIDEO_TEXTURE == 32

contains(flags, bit) == (flags \div bit) % 2 = 1

\* TexImageContainerVersion::from_magic: 1..4, or 0 for Unknown(magic)
TEXB000 == <<84, 69, 88, 66, 48, 48, 48>>

from_magic(magic) ==
    IF Len(magic) = 8 /\ SubSeq(magic, 1, 7) = TEXB000 /\ magic[8] \in 49..52
    THEN magic[8] - 48 ELSE 0

is_supported(version) == version # 0

\* FreeImageFormat is kept as its i32 code: Unknown = -1, BMP = 0 .. JXR = 36, Mp4 = 37
FIF_Unknown == -1
FIF_Mp4 == 37

FreeImageFormat_from(v) == IF v >= 0 /\ v <= 36 THEN v ELSE FIF_Unknown

to_mipmap_format(fif) ==
    CASE fif = 0  -> "ImageBMP"
      [] fif = 2  -> "ImageJPEG"
      [] fif = 13 -> "ImagePNG"
      [] fif = 25 -> "ImageGIF"
      [] fif = 17 -> "ImageTGA"
      [] fif = 24 -> "ImageDDS"
      [] fif = 18 -> "ImageTIFF"
      [] fif = 35 -> "ImageWEBP"
      [] fif = 37 -> "VideoMp4"
      [] OTHER    -> "Invalid"

\* TexImageContainer::mipmap_format (repkg-core texture/tex.rs)
mipmap_format(image_format, tex_format) ==
    IF to_mipmap_format(image_format) # "Invalid" THEN to_mipmap_format(image_format)
    ELSE CASE tex_format.tag = "RGBA8888" -> "RGBA8888"
           [] tex_format.tag = "DXT1" -> "CompressedDXT1"
           [] tex_format.tag = "DXT3" -> "CompressedDXT3"
           [] tex_format.tag = "DXT5" -> "CompressedDXT5"
           [] tex_format.tag = "R8" -> "R8"
           [] tex_format.tag = "RG88" -> "RG88"
           [] OTHER -> "Invalid"

(***************************************************************************)
(* TEX reader (repkg texture/reader.rs).  cfg is the TexReader:            *)
(* [read_mipmap_bytes, decompress_mipmaps].                                *)
(***************************************************************************)
MAX_IMAGE_COUNT == 1000
MAX_MIPMAP_COUNT == 20
MAX_FRAME_COUNT == 10000

TexReader_new == [read_mipmap_bytes |-> TRUE, decompress_mipmaps |-> TRUE]
TexReader_without_decompression == [read_mipmap_bytes |-> TRUE, decompress_mipmaps |-> FALSE]
TexReader_headers_only == [read_mipmap_bytes |-> FALSE, decompress_mipmaps |-> FALSE]

TEXV0005 == <<84, 69, 88, 86, 48, 48, 48, 53>>
TEXI0001 == <<84, 69, 88, 73, 48, 48, 48, 49>>
TEXS000 == <<84, 69, 88, 83, 48, 48, 48>>

\* the byte loop of read_null_terminated_string from offset p, at most left iterations:
\* how many bytes are pushed and how the loop ends ("nul", "max" or "eof")
NtScan(d, p, left) ==
    LET limit == Min(left, IF p >= Len(d) THEN 0 ELSE Len(d) - p)
        zeros == {i \in 1..limit : d[p + i] = 0}
    IN  IF zeros # {}
        THEN [n |-> (CHOOSE z \in zeros : \A y \in zeros : z <= y) - 1, st |-> "nul"]
        ELSE IF limit = left THEN [n |-> left, st |-> "max"]
        ELSE [n |-> limit, st |-> "eof"]

read_null_terminated_string(d, r, max_length) ==
    IF r.err # "" THEN [r |-> r, v |-> <<>>]
    ELSE
    CHOOSE ret \in {
        IF t.st = "eof" THEN [r |-> FailEof(r), v |-> <<>>]
        ELSE
        CHOOSE ret \in {
        LET r1 == [r EXCEPT !.pos = @ + t.n + (IF t.st = "nul" THEN 1 ELSE 0)]
        IN  IF ~from_utf8_ok(s) THEN [r |-> Fail(r1, "StringEncoding"), v |-> <<>>]
            ELSE [r |-> r1, v |-> s]
          : s \in {IF t.n = 0 THEN <<>> ELSE SubSeq(d, r.pos + 1, r.pos + t.n)}} : TRUE
      : t \in {NtScan(d, r.pos, max_length)}} : TRUE

\* format, flags, texture_width, texture_height, image_width, image_height, unk_int0
read_header(d, r) ==
    CHOOSE ret \in {
        [r |-> f.r,
         v |-> [format |-> TexFormat_from(U32(f.v[1])),
                flags |-> f.v[2][1],
                texture_width |-> U32(f.v[3]), texture_height |-> U32(f.v[4]),
                image_width |-> U32(f.v[5]), image_height |-> U32(f.v[6]),
                unk_int0 |-> U32(f.v[7])]]
      : f \in {read_fields(d, r, 7)}} : TRUE

MipmapBytesNone == [bytes |-> <<>>, byte_count |-> 0, file_offset |-> 0]

\* the length check is missing: the payload buffer is allocated and read unchecked
read_mipmap_bytes_NoProbe(d, r, cfg) ==
    CHOOSE ret \in {
    LET file_offset == byte_count.r.pos
        r1 == byte_count.r
    IN  IF r1.err # "" THEN [r |-> r1, v |-> MipmapBytesNone]
        ELSE IF ~cfg.read_mipmap_bytes
        THEN [r |-> [r1 EXCEPT !.pos = @ + byte_count.v],
              v |-> [bytes |-> <<>>, byte_count |-> byte_count.v, file_offset |-> file_offset]]
        ELSE CHOOSE ret \in {
                 [r |-> b.r,
                  v |-> [bytes |-> b.v, byte_count |-> byte_count.v,
                         file_offset |-> file_offset]]
               : b \in {read_exact(d, r1, byte_count.v)}} : TRUE
      : byte_count \in {read_u32(d, r)}} : TRUE

\* headers-only mode returns without seeking past the payload
read_mipmap_bytes_NoSkip(d, r, cfg) ==
    CHOOSE ret \in {
    LET file_offset == byte_count.r.pos
        r1 == Note([byte_count.r EXCEPT !.pos = file_offset], "probe", byte_count.v, file_offset)
    IN  IF r1.err # "" THEN [r |-> r1, v |-> MipmapBytesNone]
        ELSE IF Add(file_offset, byte_count.v) > Len(d)
        THEN [r |-> Fail(r1, "SafetyLimit"), v |-> MipmapBytesNone]
        ELSE IF ~cfg.read_mipmap_bytes
        THEN [r |-> r1,
              v |-> [bytes |-> <<>>, byte_count |-> byte_count.v, file_offset |-> file_offset]]
        ELSE CHOOSE ret \in {
                 [r |-> b.r,
                  v |-> [bytes |-> b.v, byte_count |-> byte_count.v,
                         file_offset |-> file_offset]]
               : b \in {read_exact(d, r1, byte_count.v)}} : TRUE
      : byte_count \in {read_u32(d, r)}} : TRUE

\* the trace entry "probe" holds byte_count, the cursor after the probe (at) and the
\* recorded file_offset (aux)
read_mipmap_bytes(d, r, cfg) ==
    CHOOSE ret \in {
    LET file_offset == byte_count.r.pos
        stream_len  == Len(d)              \* seek(End(0)), then seek(Start(file_offset))
        r1 == Note([byte_count.r EXCEPT !.pos = file_offset], "probe", byte_count.v, file_offset)
    IN  IF r1.err # "" THEN [r |-> r1, v |-> MipmapBytesNone]
        ELSE IF Add(file_offset, byte_count.v) > stream_len
        THEN [r |-> Fail(r1, "SafetyLimit"), v |-> MipmapBytesNone]
        ELSE IF ~cfg.read_mipmap_bytes
        THEN [r |-> [r1 EXCEPT !.pos = @ + byte_count.v],
              v |-> [bytes |-> <<>>, byte_count |-> byte_count.v, file_offset |-> file_offset]]
        ELSE CHOOSE ret \in {
                 [r |-> b.r,
                  v |-> [bytes |-> b.v, byte_count |-> byte_count.v,
                         file_offset |-> file_offset]]
               : b \in {read_exact(d, r1, byte_count.v)}} : TRUE
      : byte_count \in {read_u32(d, r)}} : TRUE

\* width, height
read_mipmap_v1(d, r, cfg) ==
    CHOOSE ret \in {
    CHOOSE ret \in {
        [r |-> result.r,
         v |-> [width |-> U32(f.v[1]), height |-> U32(f.v[2]), format |-> "Invalid",
                is_lz4_compressed |-> FALSE, decompressed_bytes_count |-> 0,
                bytes |-> result.v.bytes, original_byte_count |-> result.v.byte_count,
                file_offset |-> result.v.file_offset]]
      : result \in {read_mipmap_bytes(d, f.r, cfg)}} : TRUE
      : f \in {read_fields(d, r, 2)}} : TRUE

\* width, height, is_lz4, decompressed_bytes_count
read_mipmap_v2_v3(d, r, cfg) ==
    CHOOSE ret \in {
    CHOOSE ret \in {
        [r |-> result.r,
         v |-> [width |-> U32(f.v[1]), height |-> U32(f.v[2]), format |-> "Invalid",
                is_lz4_compressed |-> (U32(f.v[3]) = 1),
                decompressed_bytes_count |-> U32(f.v[4]),
                bytes |-> result.v.bytes, original_byte_count |-> result.v.byte_count,
                file_offset |-> result.v.file_offset]]
      : result \in {read_mipmap_bytes(d, f.r, cfg)}} : TRUE
      : f \in {read_fields(d, r, 4)}} : TRUE

\* param1, param2, the condition string, param3, then the v2/v3 record
read_mipmap_v4(d, r, cfg) ==
    CHOOSE ret \in {
    CHOOSE ret \in {
    CHOOSE ret \in {
        read_mipmap_v2_v3(d, param3.r, cfg)
      : param3 \in {read_u32(d, json.r)}} : TRUE
      : json \in {read_null_terminated_string(d, params.r, 4096)}} : TRUE
      : params \in {read_fields(d, Note(r, "v4_preamble", 0, 0), 2)}} : TRUE

\* the trace entry "mipmap" marks the start of one mipmap record
read_mipmap(d, r, version, cfg) ==
    LET r0 == Note(r, "mipmap", version, 0)
    IN  CASE version = 1 -> read_mipmap_v1(d, r0, cfg)
          [] version \in {2, 3} -> read_mipmap_v2_v3(d, r0, cfg)
          [] version = 4 -> read_mipmap_v4(d, r0, cfg)
          [] OTHER -> [r |-> Fail(r0, "UnsupportedContainerVersion"), v |-> None]

\* the mipmap is decompressed as read_mipmap left it and gets its format afterwards
ReadMipmap_FormatLast(d, r, version, fmt, cfg) ==
    CHOOSE ret \in {
        IF m.r.err # "" THEN m
        ELSE
        CHOOSE ret \in {
            IF dd.err # "" THEN [r |-> FailWith(m.r, dd.err, dd.details), v |-> dd.m]
            ELSE [r |-> m.r, v |-> [dd.m EXCEPT !.format = fmt]]
          : dd \in {IF cfg.decompress_mipmaps /\ has_data(m.v)
                     THEN decompress(m.v)
                     ELSE [err |-> "", details |-> "", m |-> m.v]}} : TRUE
      : m \in {read_mipmap(d, r, version, cfg)}} : TRUE

\* the body of the mipmap loop of read_image: read, set the format, decompress
ReadMipmap(d, r, version, fmt, cfg) ==
    CHOOSE ret \in {
        IF m.r.err # "" THEN m
        ELSE
        CHOOSE ret \in {
            IF dd.err # "" THEN [r |-> FailWith(m.r, dd.err, dd.details), v |-> dd.m]
            ELSE [r |-> m.r, v |-> dd.m]
          : dd \in {IF cfg.decompress_mipmaps /\ has_data(m.v)
                     THEN decompress([m.v EXCEPT !.format = fmt])
                     ELSE [err |-> "", details |-> "",
                           m |-> [m.v EXCEPT !.format = fmt]]}} : TRUE
      : m \in {read_mipmap(d, r, version, cfg)}} : TRUE

\* the mipmap loop of read_image: k mipmaps still to read
RECURSIVE ReadMipmaps(_, _, _, _, _, _, _)
ReadMipmaps(d, r, version, fmt, cfg, k, acc) ==
    IF k = 0 \/ r.err # "" THEN [r |-> r, v |-> acc]
    ELSE CHOOSE ret \in {
             IF m.r.err # "" THEN [r |-> m.r, v |-> acc]
             ELSE ReadMipmaps(d, m.r, version, fmt, cfg, k - 1, Append(acc, m.v))
           : m \in {ReadMipmap(d, r, version, fmt, cfg)}} : TRUE

\* a count equal to the cap is refused as well
read_image_CapInclusive(d, r, version, fmt, cfg) ==
    CHOOSE ret \in {
    LET r1 == Note(mipmap_count.r, "mipmap_count", mipmap_count.v, MAX_MIPMAP_COUNT)
    IN  IF r1.err # "" THEN [r |-> r1, v |-> None]
        ELSE IF mipmap_count.v >= MAX_MIPMAP_COUNT
        THEN [r |-> Fail(r1, "SafetyLimit"), v |-> None]
        ELSE
        CHOOSE ret \in {
            [r |-> ms.r, v |-> [mipmaps |-> ms.v]]
          : ms \in {ReadMipmaps(d, Note(r1, "reserve", mipmap_count.v, 0), version, fmt,
                                 cfg, mipmap_count.v, <<>>)}} : TRUE
      : mipmap_count \in {read_u32(d, r)}} : TRUE

read_image(d, r, version, fmt, cfg) ==
    CHOOSE ret \in {
    LET r1 == Note(mipmap_count.r, "mipmap_count", mipmap_count.v, MAX_MIPMAP_COUNT)
    IN  IF r1.err # "" THEN [r |-> r1, v |-> None]
        ELSE IF mipmap_count.v > MAX_MIPMAP_COUNT
        THEN [r |-> Fail(r1, "SafetyLimit"), v |-> None]
        ELSE
        CHOOSE ret \in {
            [r |-> ms.r, v |-> [mipmaps |-> ms.v]]
          : ms \in {ReadMipmaps(d, Note(r1, "reserve", mipmap_count.v, 0), version, fmt,
                                 cfg, mipmap_count.v, <<>>)}} : TRUE
      : mipmap_count \in {read_u32(d, r)}} : TRUE

\* the image loop of read_image_container: k images still to read
RECURSIVE ReadImages(_, _, _, _, _, _, _)
ReadImages(d, r, version, fmt, cfg, k, acc) ==
    IF k = 0 \/ r.err # "" THEN [r |-> r, v |-> acc]
    ELSE CHOOSE ret \in {
             IF im.r.err # "" THEN [r |-> im.r, v |-> acc]
             ELSE ReadImages(d, im.r, version, fmt, cfg, k - 1, Append(acc, im.v))
           : im \in {read_image(d, r, version, fmt, cfg)}} : TRUE

\* the additional container fields by version: [r, v |-> effective image format]
ReadImageFormat(d, r, version) ==
    CASE version \in {1, 2} -> [r |-> r, v |-> FIF_Unknown]
      [] version = 3 ->
            (CHOOSE ret \in {
                [r |-> f.r, v |-> FreeImageFormat_from(I32(f.v[1]))]
              : f \in {read_fields(d, r, 1)}} : TRUE)
      [] version = 4 ->
            (CHOOSE ret \in {
            LET format == FreeImageFormat_from(I32(f.v[1]))
                is_mp4_flag == I32(f.v[2])
            IN  [r |-> f.r,
                 v |-> IF format = FIF_Unknown /\ is_mp4_flag = 1 THEN FIF_Mp4 ELSE format]
              : f \in {read_fields(d, r, 2)}} : TRUE)
      [] OTHER -> [r |-> Fail(r, "UnsupportedContainerVersion"), v |-> FIF_Unknown]

\* the stored and dispatching version after the additional fields are known
Downgrade_Never(version, image_format) == version

Downgrade(version, image_format) ==
    IF version = 4 /\ image_format # FIF_Mp4 THEN 3 ELSE version

read_image_container(d, r, tex_format, cfg) ==
    CHOOSE ret \in {
    LET version0 == from_magic(container_magic.v)
        r1 == IF container_magic.r.err = "" /\ ~is_supported(version0)
              THEN Fail(container_magic.r, "UnsupportedContainerVersion")
              ELSE container_magic.r
    IN
    CHOOSE ret \in {
    LET r2 == Note(image_count.r, "image_count", image_count.v, MAX_IMAGE_COUNT)
        r3 == IF r2.err = "" /\ (image_count.v < 0 \/ image_count.v > MAX_IMAGE_COUNT)
              THEN Fail(r2, "SafetyLimit") ELSE r2
    IN
    CHOOSE ret \in {
    LET version == Downgrade(version0, image_format.v)
        fmt == mipmap_format(image_format.v, tex_format)
    IN
    CHOOSE ret \in {
        [r |-> images.r,
         v |-> [version |-> version, image_format |-> image_format.v, images |-> images.v]]
      : images \in {ReadImages(d, image_format.r, version, fmt, cfg, image_count.v, <<>>)}} : TRUE
      : image_format \in {ReadImageFormat(d, r3, version0)}} : TRUE
      : image_count \in {read_i32(d, r1)}} : TRUE
      : container_magic \in {read_null_terminated_string(d, r, 16)}} : TRUE

\* the frame loop of read_frame_info_container: k frame records still to read, each
\* image_id, frametime, x, y, width, height_x, width_y, height
RECURSIVE ReadFrames(_, _, _, _)
ReadFrames(d, r, k, acc) ==
    IF k = 0 \/ r.err # "" THEN [r |-> r, v |-> acc]
    ELSE
    CHOOSE ret \in {
        IF f.r.err # "" THEN [r |-> f.r, v |-> acc]
        ELSE ReadFrames(d, f.r, k - 1,
                Append(acc, [image_id |-> U32(f.v[1]), frametime |-> f.v[2],
                             x |-> f.v[3], y |-> f.v[4], width |-> f.v[5],
                             height_x |-> f.v[6], width_y |-> f.v[7],
                             height |-> f.v[8]]))
      : f \in {read_fields(d, r, 8)}} : TRUE

\* the magic, then gif_width, gif_height, unk1, frame_count, then the frames
read_frame_info_container(d, r) ==
    CHOOSE ret \in {
    LET r1 == IF magic.r.err = ""
                 /\ ~(Len(magic.v) = 8 /\ SubSeq(magic.v, 1, 7) = TEXS000
                      /\ magic.v[8] \in 49..51)
              THEN Fail(magic.r, "InvalidData") ELSE magic.r
    IN
    CHOOSE ret \in {
    LET frame_count == U32(f.v[4])
        r2 == Note(f.r, "frame_count", frame_count, MAX_FRAME_COUNT)
        r3 == IF r2.err = "" /\ frame_count > MAX_FRAME_COUNT
              THEN Fail(r2, "SafetyLimit") ELSE r2
    IN
    CHOOSE ret \in {
        [r |-> frames.r,
         v |-> [gif_width |-> U32(f.v[1]), gif_height |-> U32(f.v[2]), frames |-> frames.v]]
      : frames \in {ReadFrames(d, r3, frame_count, <<>>)}} : TRUE
      : f \in {read_fields(d, r1, 4)}} : TRUE
      : magic \in {read_null_terminated_string(d, r, 16)}} : TRUE

\* read_from without the frame-info step
TexReader_read_from_NoFrameInfo(d, cfg) ==
    CHOOSE ret \in {
    LET r1 == IF magic1.r.err = "" /\ magic1.v # TEXV0005
              THEN Fail(magic1.r, "InvalidTexMagic") ELSE magic1.r
    IN
    CHOOSE ret \in {
    LET r2 == IF magic2.r.err = "" /\ magic2.v # TEXI0001
              THEN Fail(magic2.r, "InvalidTexMagic") ELSE magic2.r
    IN
    CHOOSE ret \in {
    CHOOSE ret \in {
        [r |-> images_container.r,
         v |-> IF images_container.r.err # "" THEN None
               ELSE [magic1 |-> magic1.v, magic2 |-> magic2.v, header |-> header.v,
                     images_container |-> images_container.v,
                     frame_info_container |-> None]]
      : images_container \in {read_image_container(d, header.r, header.v.format, cfg)}} : TRUE
      : header \in {read_header(d, r2)}} : TRUE
      : magic2 \in {read_null_terminated_string(d, r1, 16)}} : TRUE
      : magic1 \in {read_null_terminated_string(d, Cursor0, 16)}} : TRUE

\* TexReader::read_from: [r |-> cursor, v |-> Tex or None]
TexReader_read_from(d, cfg) ==
    CHOOSE ret \in {
    LET r1 == IF magic1.r.err = "" /\ magic1.v # TEXV0005
              THEN Fail(magic1.r, "InvalidTexMagic") ELSE magic1.r
    IN
    CHOOSE ret \in {
    LET r2 == IF magic2.r.err = "" /\ magic2.v # TEXI0001
              THEN Fail(magic2.r, "InvalidTexMagic") ELSE magic2.r
    IN
    CHOOSE ret \in {
    CHOOSE ret \in {
    LET animated == images_container.r.err = "" /\ contains(header.v.flags, IS_GIF)
    IN
    CHOOSE ret \in {
        [r |-> frame_info.r,
         v |-> IF frame_info.r.err # "" THEN None
               ELSE [magic1 |-> magic1.v, magic2 |-> magic2.v, header |-> header.v,
                     images_container |-> images_container.v,
                     frame_info_container |-> frame_info.v]]
      : frame_info \in {IF animated THEN read_frame_info_container(d, images_container.r)
                         ELSE [r |-> images_container.r, v |-> None]}} : TRUE
      : images_container \in {read_image_container(d, header.r, header.v.format, cfg)}} : TRUE
      : header \in {read_header(d, r2)}} : TRUE
      : magic2 \in {read_null_terminated_string(d, r1, 16)}} : TRUE
      : magic1 \in {read_null_terminated_string(d, Cursor0, 16)}} : TRUE

(***************************************************************************)
(* TexFrameInfo (repkg-core texture/frame_info.rs).  An f32 field is held  *)
(* as its four bytes; F32Fixed decodes it to the value times 2^10, exact   *)
(* for multiples of 2^-10 of magnitude below 2^20 (-0.0 and subnormals     *)
(* decode to 0, larger magnitudes saturate).                               *)
(***************************************************************************)
FX == 1024

Pow2(k) == 2^k

F32Fixed(b) ==
    LET e == (b[4] % 128) * 2 + (b[3] \div 128)
        m == 8388608 + (b[3] % 128) * 65536 + b[2] * 256 + b[1]
        mag == IF e = 0 THEN 0
               ELSE IF e > 146 THEN U32Top
               ELSE IF e >= 140 THEN m * Pow2(e - 140)
               ELSE IF e < 116 THEN 0
               ELSE m \div Pow2(140 - e)
    IN  IF b[4] >= 128 THEN -mag ELSE mag

Abs(x) == IF x < 0 THEN -x ELSE x

\* `f as u32`: toward zero, negative values to 0
AsU32(fixed) == IF fixed <= 0 THEN 0 ELSE fixed \div FX

\* width, or height_x when width is 0.0; height, or width_y when height is 0.0
FrameW(f) == CHOOSE ret \in {
                 IF w # 0 THEN w ELSE F32Fixed(f.height_x)
               : w \in {F32Fixed(f.width)}} : TRUE

FrameH(f) == CHOOSE ret \in {
                 IF h # 0 THEN h ELSE F32Fixed(f.width_y)
               : h \in {F32Fixed(f.height)}} : TRUE

actual_width(f) == Abs(FrameW(f))

actual_height(f) == Abs(FrameH(f))

\* rotation_angle in degrees: -(atan2(sign_h, sign_w) - pi/4) * 180 / pi, rounded
rotation_deg(f) ==
    LET sign_w == FrameW(f) >= 0
        sign_h == FrameH(f) >= 0
    IN  CASE sign_w /\ sign_h -> 0
          [] sign_w /\ ~sign_h -> 90
          [] ~sign_w /\ sign_h -> -90
          [] OTHER -> 180

crop_rect(f) ==
    CHOOSE ret \in {
    CHOOSE ret \in {
    CHOOSE ret \in {
    CHOOSE ret \in {
        [x |-> AsU32(Min(x, x + w)), y |-> AsU32(Min(y, y + h)),
         w |-> AsU32(Abs(w)), h |-> AsU32(Abs(h))]
      : y \in {F32Fixed(f.y)}} : TRUE
      : x \in {F32Fixed(f.x)}} : TRUE
      : h \in {FrameH(f)}} : TRUE
      : w \in {FrameW(f)}} : TRUE

\* TexFrameInfoExt (converter.rs)
gif_width(f) == AsU32(actual_width(f))

gif_height(f) == AsU32(actual_height(f))

(***************************************************************************)
(* TexToImageConverter (repkg texture/converter.rs).  An image is its      *)
(* dimensions and pixel layout, [w, h, kind].  The codecs of the image     *)
(* crate are outside the repository: an encoded file is stood for by the   *)
(* format's signature followed by the two dimensions, and a payload        *)
(* decodes exactly when it is such a file.  codec holds the outcomes the   *)
(* linked codec version decides: whether an image with a zero dimension    *)
(* encodes, and whether the JPEG encoder takes a layout with alpha.        *)
(***************************************************************************)
OutputFormats == {"Png", "Jpeg", "Gif", "WebP", "Bmp", "Tiff", "Tga", "Mp4"}

Codecs == [zero_dim_ok : BOOLEAN, jpeg_alpha_ok : BOOLEAN]

ConvOk(bytes, format) == [err |-> "", message |-> "", bytes |-> bytes, format |-> format]

ConvErr(kind, message) == [err |-> kind, message |-> message, bytes |-> <<>>, format |-> ""]

Img(w, h, kind) == [w |-> w, h |-> h, kind |-> kind]

\* the signature by which image::guess_format knows a file; TGA has none
Signature(format) ==
    CASE format = "Png" -> <<137, 80, 78, 71>>
      [] format = "Jpeg" -> <<255, 216, 255>>
      [] format = "Gif" -> <<71, 73, 70, 56>>
      [] format = "WebP" -> <<82, 73, 70, 70>>
      [] format = "Bmp" -> <<66, 77>>
      [] format = "Tiff" -> <<73, 73, 42, 0>>
      [] OTHER -> <<>>

Encoded(format, img) == Signature(format) \o <<img.w, img.h>>

\* image::load_from_memory: [ok, img]
load_from_memory(bytes) ==
    LET known == {f \in OutputFormats : Signature(f) # <<>>
                     /\ Len(bytes) = Len(Signature(f)) + 2
                     /\ SubSeq(bytes, 1, Len(Signature(f))) = Signature(f)}
    IN  IF known = {} THEN [ok |-> FALSE, img |-> Img(0, 0, "Rgba8")]
        ELSE [ok |-> TRUE, img |-> Img(bytes[Len(bytes) - 1], bytes[Len(bytes)], "Rgba8")]

is_video(t) == contains(t.header.flags, IS_VIDEO_TEXTURE)

is_gif(t) == contains(t.header.flags, IS_GIF)

needs_crop(h) == h.image_width # h.texture_width \/ h.image_height # h.texture_height

has_first_mipmap(t) ==
    /\ Len(t.images_container.images) > 0
    /\ Len(t.images_container.images[1].mipmaps) > 0

first_mipmap(t) == t.images_container.images[1].mipmaps[1]

\* the animated flag is looked at before the video flag
recommended_format_GifFirst(t) ==
    IF is_gif(t) THEN "Gif" ELSE IF is_video(t) THEN "Mp4" ELSE "Png"

recommended_format(t) ==
    IF is_video(t) THEN "Mp4" ELSE IF is_gif(t) THEN "Gif" ELSE "Png"

formats_match(mipmap_fmt, output_fmt) ==
    <<mipmap_fmt, output_fmt>> \in
        {<<"ImagePNG", "Png">>, <<"ImageJPEG", "Jpeg">>, <<"ImageGIF", "Gif">>,
         <<"ImageWEBP", "WebP">>, <<"ImageBMP", "Bmp">>, <<"ImageTIFF", "Tiff">>,
         <<"ImageTGA", "Tga">>}

\* the declared format is trusted whatever the payload length
infer_format_from_size_Declared(declared_format, pixel_count, data_size) == declared_format

\* a format is inferred only for a declared raw format
infer_format_from_size_RawOnly(declared_format, pixel_count, data_size) ==
    IF bytes_per_pixel(declared_format) = 0 THEN declared_format
    ELSE IF data_size = Mul(pixel_count, bytes_per_pixel(declared_format))
    THEN declared_format
    ELSE IF data_size = Mul(pixel_count, 4) THEN "RGBA8888"
    ELSE IF data_size = Mul(pixel_count, 2) THEN "RG88"
    ELSE IF data_size = pixel_count THEN "R8"
    ELSE declared_format

\* a payload length that fits no format is taken as one byte per pixel
infer_format_from_size_Smallest(declared_format, pixel_count, data_size) ==
    IF bytes_per_pixel(declared_format) # 0
       /\ data_size = Mul(pixel_count, bytes_per_pixel(declared_format))
    THEN declared_format
    ELSE IF data_size = Mul(pixel_count, 4) THEN "RGBA8888"
    ELSE IF data_size = Mul(pixel_count, 2) THEN "RG88"
    ELSE "R8"

infer_format_from_size(declared_format, pixel_count, data_size) ==
    IF bytes_per_pixel(declared_format) # 0
       /\ data_size = Mul(pixel_count, bytes_per_pixel(declared_format))
    THEN declared_format
    ELSE IF data_size = Mul(pixel_count, 4) THEN "RGBA8888"
    ELSE IF data_size = Mul(pixel_count, 2) THEN "RG88"
    ELSE IF data_size = pixel_count THEN "R8"
    ELSE declared_format

\* ImageBuffer::from_raw: Some exactly when the buffer holds width*height*channels bytes
from_raw_ok(width, height, channels, len) == Mul(Mul(width, height), channels) <= len

\* mipmap_to_image: [err, message, img]
mipmap_to_image(m) ==
    LET pixel_count == Mul(m.width, m.height)
        data_size == Len(m.bytes)
        actual_format == infer_format_from_size(m.format, pixel_count, data_size)
        made(channels, kind, name) ==
            IF from_raw_ok(m.width, m.height, channels, data_size)
            THEN [err |-> "", message |-> "", img |-> Img(m.width, m.height, kind)]
            ELSE [err |-> "InvalidData", message |-> name, img |-> Img(0, 0, kind)]
    IN  CASE actual_format = "RGBA8888" ->
                made(4, "Rgba8", "Invalid RGBA8888 data size for dimensions")
          [] actual_format = "R8" -> made(1, "Luma8", "Invalid R8 data size for dimensions")
          [] actual_format = "RG88" ->
                made(2, "LumaA8", "Invalid RG88 data size for dimensions")
          [] OTHER -> [err |-> "UnsupportedMipmapFormat", message |-> m.format,
                       img |-> Img(0, 0, "Rgba8")]

\* DynamicImage::crop_imm: the rectangle is clamped to the image
crop_imm(img, x, y, width, height) ==
    LET cx == Min(x, img.w)
        cy == Min(y, img.h)
    IN  Img(Min(width, img.w - cx), Min(height, img.h - cy), img.kind)

rotate90(img) == Img(img.h, img.w, img.kind)

rotate180(img) == img

rotate270(img) == Img(img.h, img.w, img.kind)

resize_exact(img, nwidth, nheight) == Img(nwidth, nheight, img.kind)

encode_image(image, format, codec) ==
    IF format = "Mp4" THEN ConvErr("InvalidData", "Cannot encode static image as MP4")
    ELSE IF (image.w = 0 \/ image.h = 0) /\ ~codec.zero_dim_ok
    THEN ConvErr("ImageConversion", "")
    ELSE IF format = "Jpeg" /\ image.kind \in {"Rgba8", "LumaA8"} /\ ~codec.jpeg_alpha_ok
    THEN ConvErr("ImageConversion", "")
    ELSE IF format = "Gif" /\ (image.w > 65535 \/ image.h > 65535)
    THEN ConvErr("ImageConversion", "")
    ELSE ConvOk(Encoded(format, image), format)

\* the payload is returned from its fifth byte on, without the box size
convert_video_Tail(t) ==
    IF ~has_first_mipmap(t) THEN ConvErr("InvalidData", "Video texture has no data")
    ELSE CHOOSE ret \in {
             IF Len(mipmap.bytes) >= 12 /\ SubSeq(mipmap.bytes, 5, 8) # <<102, 116, 121, 112>>
             THEN ConvErr("InvalidData", "Expected MP4 magic header")
             ELSE ConvOk(SubSeq(mipmap.bytes, 5, Len(mipmap.bytes)), "Mp4")
           : mipmap \in {first_mipmap(t)}} : TRUE

convert_video(t) ==
    IF ~has_first_mipmap(t) THEN ConvErr("InvalidData", "Video texture has no data")
    ELSE CHOOSE ret \in {
             IF Len(mipmap.bytes) >= 12 /\ SubSeq(mipmap.bytes, 5, 8) # <<102, 116, 121, 112>>
             THEN ConvErr("InvalidData", "Expected MP4 magic header")
             ELSE ConvOk(mipmap.bytes, "Mp4")
           : mipmap \in {first_mipmap(t)}} : TRUE

convert_embedded_image(mipmap, format, codec) ==
    CHOOSE ret \in {
        IF ~image.ok THEN ConvErr("ImageConversion", "")
        ELSE IF formats_match(mipmap.format, format) THEN ConvOk(mipmap.bytes, format)
        ELSE encode_image(image.img, format, codec)
      : image \in {load_from_memory(mipmap.bytes)}} : TRUE

convert_static(t, format, codec) ==
    IF ~has_first_mipmap(t) THEN ConvErr("InvalidData", "Texture has no image data")
    ELSE
    CHOOSE ret \in {
        IF is_image(mipmap.format) THEN convert_embedded_image(mipmap, format, codec)
        ELSE
        CHOOSE ret \in {
            IF image.err # "" THEN ConvErr(image.err, image.message)
            ELSE
            CHOOSE ret \in {
                encode_image(cropped, format, codec)
              : cropped \in {IF needs_crop(t.header)
                              THEN crop_imm(image.img, 0, 0, t.header.image_width,
                                            t.header.image_height)
                              ELSE image.img}} : TRUE
          : image \in {mipmap_to_image(mipmap)}} : TRUE
      : mipmap \in {first_mipmap(t)}} : TRUE

\* the source images of convert_gif, one per image that has a first mipmap: [err, message, v]
RECURSIVE SourceImages(_, _, _)
SourceImages(images, i, acc) ==
    IF i > Len(images) THEN [err |-> "", message |-> "", v |-> acc]
    ELSE IF Len(images[i].mipmaps) = 0 THEN SourceImages(images, i + 1, acc)
    ELSE
    CHOOSE ret \in {
        IF is_image(mipmap.format)
        THEN CHOOSE ret \in {
                 IF ~loaded.ok THEN [err |-> "ImageConversion", message |-> "", v |-> acc]
                 ELSE SourceImages(images, i + 1, Append(acc, loaded.img))
               : loaded \in {load_from_memory(mipmap.bytes)}} : TRUE
        ELSE CHOOSE ret \in {
                 IF made.err # "" THEN [err |-> made.err, message |-> made.message, v |-> acc]
                 ELSE SourceImages(images, i + 1, Append(acc, made.img))
               : made \in {mipmap_to_image(mipmap)}} : TRUE
      : mipmap \in {images[i].mipmaps[1]}} : TRUE

\* every restore angle but 180 degrees is left alone
quarter_turns_HalfOnly(deg) == IF deg \in {180, -180} THEN 180 ELSE 0

\* the lossless rotation convert_gif applies for a restore angle in whole degrees:
\* 90, 180 or 270 for rotate90, rotate180, rotate270, and 0 for none
quarter_turns(deg) ==
    CASE deg \in {90, -270} -> 90
      [] deg \in {180, -180} -> 180
      [] deg \in {270, -90} -> 270
      [] OTHER -> 0

\* one frame of convert_gif: crop, rotate, resize, delay
MakeFrame(frame_info, source, source_idx) ==
    CHOOSE ret \in {
    CHOOSE ret \in {
    CHOOSE ret \in {
    LET cropped == crop_imm(source, c.x, c.y, c.w, c.h)
        rot == IF Abs(deg) > 1 THEN quarter_turns(deg) ELSE 0
        rotated == CASE rot = 90 -> rotate90(cropped)
                     [] rot = 180 -> rotate180(cropped)
                     [] rot = 270 -> rotate270(cropped)
                     [] OTHER -> cropped
        final_frame == IF rotated.w # target[1] \/ rotated.h # target[2]
                       THEN resize_exact(rotated, target[1], target[2])
                       ELSE rotated
        frametime == F32Fixed(frame_info.frametime)
        delay_ms == AsU32(Mul(Abs(frametime), 1000) * (IF frametime < 0 THEN -1 ELSE 1))
    IN  [w |-> final_frame.w, h |-> final_frame.h, delay_ms |-> delay_ms,
         source_idx |-> source_idx, crop |-> c, deg |-> deg, rot |-> rot]
      : target \in {<<gif_width(frame_info), gif_height(frame_info)>>}} : TRUE
      : deg \in {rotation_deg(frame_info)}} : TRUE
      : c \in {crop_rect(frame_info)}} : TRUE

\* the frame loop ends at the first frame whose image_id is out of bounds
RECURSIVE BuildFrames_Break(_, _, _, _)
BuildFrames_Break(frames, i, source_images, acc) ==
    IF i > Len(frames) THEN acc
    ELSE CHOOSE ret \in {
             IF source_idx >= Len(source_images)
             THEN acc
             ELSE BuildFrames_Break(frames, i + 1, source_images,
                     Append(acc, MakeFrame(frames[i], source_images[source_idx + 1],
                                           source_idx)))
           : source_idx \in {frames[i].image_id}} : TRUE

RECURSIVE BuildFrames(_, _, _, _)
BuildFrames(frames, i, source_images, acc) ==
    IF i > Len(frames) THEN acc
    ELSE CHOOSE ret \in {
             IF source_idx >= Len(source_images)
             THEN BuildFrames(frames, i + 1, source_images, acc)
             ELSE BuildFrames(frames, i + 1, source_images,
                     Append(acc, MakeFrame(frames[i], source_images[source_idx + 1],
                                           source_idx)))
           : source_idx \in {frames[i].image_id}} : TRUE

\* GifEncoder::encode_frames: frame dimensions are u16
encode_frames(frames, codec) ==
    IF \E i \in 1..Len(frames) : frames[i].w > 65535 \/ frames[i].h > 65535
    THEN ConvErr("ImageConversion", "")
    ELSE IF (\E i \in 1..Len(frames) : frames[i].w = 0 \/ frames[i].h = 0)
            /\ ~codec.zero_dim_ok
    THEN ConvErr("ImageConversion", "")
    ELSE ConvOk(Signature("Gif") \o <<frames[1].w, frames[1].h, Len(frames)>>, "Gif")

convert_gif(t, format, codec) ==
    IF t.frame_info_container = None
    THEN ConvErr("InvalidData", "GIF texture missing frame info")
    ELSE IF Len(t.images_container.images) = 0
    THEN ConvErr("InvalidData", "GIF texture has no images")
    ELSE
    CHOOSE ret \in {
        IF source_images.err # ""
        THEN ConvErr(source_images.err, source_images.message)
        ELSE IF Len(source_images.v) = 0
        THEN ConvErr("InvalidData", "No valid images in GIF texture")
        ELSE
        CHOOSE ret \in {
            IF Len(frames) = 0
            THEN ConvErr("InvalidData", "No frames could be extracted from GIF")
            ELSE IF format # "Gif"
            THEN encode_image(Img(frames[1].w, frames[1].h, "Rgba8"), format, codec)
            ELSE encode_frames(frames, codec)
          : frames \in {BuildFrames(t.frame_info_container.frames, 1, source_images.v,
                                     <<>>)}} : TRUE
      : source_images \in {SourceImages(t.images_container.images, 1, <<>>)}} : TRUE

\* the video path is taken only when MP4 is requested
convert_VideoWhenAsked(t, format, codec) ==
    IF is_video(t) /\ format = "Mp4" THEN convert_video(t)
    ELSE IF is_gif(t) THEN convert_gif(t, format, codec)
    ELSE convert_static(t, format, codec)

convert(t, format, codec) ==
    IF is_video(t) THEN convert_video(t)
    ELSE IF is_gif(t) THEN convert_gif(t, format, codec)
    ELSE convert_static(t, format, codec)

(***************************************************************************)
(* Inputs.  LE32 writes a u32 (or a negative i32) little-endian.           *)
(***************************************************************************)
LE32(n) ==
    LET u == IF n < 0 THEN n + 2147483647 + 1 ELSE n
        top == (u \div 16777216) + (IF n < 0 THEN 128 ELSE 0)
    IN  <<u % 256, (u \div 256) % 256, (u \div 65536) % 256, top>>

RECURSIVE Flatten(_)
Flatten(ss) == IF Len(ss) = 0 THEN <<>> ELSE ss[1] \o Flatten(Tail(ss))

SeqsUpTo(S, n) == UNION {[1..k -> S] : k \in 0..n}

Prefixes(f) == {SubSeq(f, 1, n) : n \in 0..Len(f)}

(***************************************************************************)
(* Decompressor inputs: mipmaps of every layout the reader can build.      *)
(***************************************************************************)
MaxDim == 2

\* pixel counts and payload lengths given to infer_format_from_size
MaxPixels == 3
MaxBytes == 12

DecFormats == {"Invalid", "RGBA8888", "R8", "CompressedDXT1", "CompressedDXT3",
               "CompressedDXT5", "VideoMp4", "ImagePNG"}

DecSizes == {0, 1, 4, 5, 8, 16}

\* raw bytes, LZ4 blocks (of 1, 5, 8 and 16 bytes) and whole BC1 / BC3 blocks
DecPayloads ==
    {<<>>, <<7>>, <<16, 7>>, <<1, 2, 3, 4>>, <<16, 7, 1, 0, 0>>,
     <<19, 9, 1, 0, 0>>, <<27, 9, 1, 0, 0>>,
     Repeat(9, 8), Repeat(9, 16)}

DecInputs ==
    [width : 0..MaxDim, height : 0..MaxDim, format : DecFormats,
     is_lz4_compressed : BOOLEAN, decompressed_bytes_count : DecSizes,
     bytes : DecPayloads]

(***************************************************************************)
(* Package inputs: a directory of up to MaxPkgEntries entries followed by  *)
(* a data section, the declared counts and lengths honest or not, and      *)
(* every truncation of the small files.                                    *)
(***************************************************************************)
MaxPkgEntries == 2
MaxOffset == 2
MaxEntryLen == 2
MaxPkgData == 3

PKGV0019 == <<80, 75, 71, 86, 48, 48, 49, 57>>

\* "a.tex", "B.JSON"
PkgPaths == {<<97, 46, 116, 101, 120>>, <<66, 46, 74, 83, 79, 78>>}

PkgEntrySpecs == [offset : 0..MaxOffset, length : 0..MaxEntryLen]

PkgEntryBytes(path, path_len, e) == LE32(path_len) \o path \o LE32(e.offset) \o LE32(e.length)

PkgFile(magic_len, magic, entry_count, path, path_len, es, ndata) ==
    LE32(magic_len) \o magic \o LE32(entry_count)
    \o Flatten([i \in 1..Len(es) |-> PkgEntryBytes(path, path_len, es[i])])
    \o [i \in 1..ndata |-> 10 + i]

PkgHonest ==
    {PkgFile(8, PKGV0019, Len(es), path, Len(path), es, n) :
        es \in SeqsUpTo(PkgEntrySpecs, MaxPkgEntries), path \in PkgPaths, n \in 0..MaxPkgData}

\* declared counts and lengths at and around the caps, and a wrong magic
PkgLying ==
    {PkgFile(ml, PKGV0019, ec, <<97>>, pl, es, 1) :
        ml \in {8, MAX_MAGIC_LENGTH, MAX_MAGIC_LENGTH + 1},
        ec \in {1, 2, MAX_ENTRY_COUNT - 1, MAX_ENTRY_COUNT, MAX_ENTRY_COUNT + 1},
        pl \in {1, MAX_PATH_LENGTH - 1, MAX_PATH_LENGTH, MAX_PATH_LENGTH + 1},
        es \in SeqsUpTo([offset : {0}, length : {1}], 1)}
    \cup {PkgFile(4, <<80, 75, 71, 88>>, 0, <<97>>, 1, <<>>, 0),
          PkgFile(2, <<195, 40>>, 0, <<97>>, 1, <<>>, 0)}

PkgTruncated ==
    UNION {Prefixes(PkgFile(8, PKGV0019, Len(es), <<97>>, 1, es, 1)) :
             es \in SeqsUpTo([offset : {0}, length : {1}], MaxPkgEntries)}

\* a magic of exactly MAX_MAGIC_LENGTH bytes
PkgAtCap ==
    {PkgFile(MAX_MAGIC_LENGTH, <<80, 75, 71, 86>> \o Repeat(48, MAX_MAGIC_LENGTH - 4), 1,
             <<97>>, 1, <<[offset |-> 0, length |-> 1]>>, 1)}

PkgInputs == PkgHonest \cup PkgLying \cup PkgTruncated \cup PkgAtCap

(***************************************************************************)
(* Texture inputs.  A file is written from a description: the header, the  *)
(* container fields of its version, n images of k mipmaps each and, last,  *)
(* a frame-info table.  layout is the per-mipmap record shape the writer   *)
(* used: 1 (v1), 2 (v2/v3) or 4 (v4 preamble first).                       *)
(***************************************************************************)
MaxImages == 2
MaxMips == 2

NT(str) == str \o <<0>>

TexHeaderBytes(fmt, flags, tw, th, iw, ih) ==
    NT(TEXV0005) \o NT(TEXI0001) \o LE32(fmt) \o LE32(flags)
    \o LE32(tw) \o LE32(th) \o LE32(iw) \o LE32(ih) \o LE32(0)

ContainerBytes(version, image_count, kind, mp4) ==
    NT(TEXB000 \o <<48 + version>>) \o LE32(image_count)
    \o (IF version >= 3 THEN LE32(kind) ELSE <<>>)
    \o (IF version = 4 THEN LE32(mp4) ELSE <<>>)

\* "{}" as the condition string of the v4 preamble
MipBytes(layout, m) ==
    (IF layout = 4 THEN LE32(0) \o LE32(0) \o NT(<<123, 125>>) \o LE32(0) ELSE <<>>)
    \o LE32(m.w) \o LE32(m.h)
    \o (IF layout >= 2 THEN LE32(m.lz4) \o LE32(m.dsize) ELSE <<>>)
    \o LE32(m.count) \o m.payload

ImageBytes(layout, mipmap_count, mips) ==
    LE32(mipmap_count) \o Flatten([i \in 1..Len(mips) |-> MipBytes(layout, mips[i])])

\* n images of k mipmaps of profile p; the last mipmap of the last image has profile q
ImagesBytes(layout, n, k, p, q) ==
    Flatten([i \in 1..n |->
        ImageBytes(layout, k, [j \in 1..k |-> IF i = n /\ j = k THEN q ELSE p])])

F32_0 == <<0, 0, 0, 0>>
F32_1 == <<0, 0, 128, 63>>

FrameBytes(image_id) ==
    LE32(image_id) \o F32_1 \o F32_0 \o F32_0 \o F32_1 \o F32_0 \o F32_0 \o F32_1

FrameInfoBytes(digit, frame_count, ids) ==
    NT(TEXS000 \o <<48 + digit>>) \o LE32(1) \o LE32(1) \o LE32(0) \o LE32(frame_count)
    \o Flatten([i \in 1..Len(ids) |-> FrameBytes(ids[i])])

Profile(w, h, lz4, dsize, count, payload) ==
    [w |-> w, h |-> h, lz4 |-> lz4, dsize |-> dsize, count |-> count, payload |-> payload]

P_raw == Profile(1, 1, 0, 0, 4, <<1, 2, 3, 4>>)
P_lz4 == Profile(1, 1, 1, 4, 5, <<64, 1, 2, 3, 4>>)
P_empty == Profile(1, 1, 0, 0, 0, <<>>)
\* declares one byte more than the payload that follows
P_over == Profile(1, 1, 0, 0, 5, <<1, 2, 3, 4>>)
\* an LZ4 block with a declared decompressed size of 2^30
P_lz4big == Profile(1, 1, 1, 1073741824, 5, <<64, 1, 2, 3, 4>>)

LayoutProfiles == {P_raw, P_lz4, P_empty, P_over}

\* the record shape an honest writer uses
HonestLayout(version, kind, mp4) ==
    CASE version = 1 -> 1
      [] version \in {2, 3} -> 2
      [] OTHER -> IF FreeImageFormat_from(kind) = FIF_Unknown /\ mp4 = 1 THEN 4 ELSE 2

ContainerShapes ==
    {[version |-> v, kind |-> FIF_Unknown, mp4 |-> 0, layout |-> HonestLayout(v, FIF_Unknown, 0)] :
        v \in 1..3}
    \cup {[version |-> 3, kind |-> 13, mp4 |-> 0, layout |-> 2]}
    \cup [version : {4}, kind : {FIF_Unknown, 13, 37}, mp4 : {0, 1}, layout : {2, 4}]

FrameTables == {<<>>, FrameInfoBytes(3, 0, <<>>), FrameInfoBytes(3, 1, <<0>>),
                FrameInfoBytes(1, 2, <<0, 1>>)}

TexLayoutInputs ==
    {TexHeaderBytes(0, flags, 1, 1, 1, 1)
     \o ContainerBytes(c.version, n, c.kind, c.mp4)
     \o ImagesBytes(c.layout, n, k, p, q)
     \o ft :
        c \in ContainerShapes, flags \in {0, IS_GIF}, n \in 0..MaxImages, k \in 0..MaxMips,
        p \in LayoutProfiles, q \in LayoutProfiles, ft \in FrameTables}

\* counts at and around the caps, with one element (or, for mipmaps, all twenty) present
TexCapInputs ==
    {TexHeaderBytes(0, 0, 1, 1, 1, 1) \o ContainerBytes(v, ic, FIF_Unknown, 0)
     \o ImageBytes(HonestLayout(v, FIF_Unknown, 0), 1, <<P_raw>>) :
        v \in 1..4, ic \in {-1, MAX_IMAGE_COUNT - 1, MAX_IMAGE_COUNT, MAX_IMAGE_COUNT + 1}}
    \cup
    {TexHeaderBytes(0, 0, 1, 1, 1, 1) \o ContainerBytes(v, 1, FIF_Unknown, 0)
     \o ImageBytes(HonestLayout(v, FIF_Unknown, 0), mc, [j \in 1..present |-> P_empty]) :
        v \in 1..4, mc \in {MAX_MIPMAP_COUNT - 1, MAX_MIPMAP_COUNT, MAX_MIPMAP_COUNT + 1},
        present \in {1, MAX_MIPMAP_COUNT}}
    \cup
    {TexHeaderBytes(0, IS_GIF, 1, 1, 1, 1) \o ContainerBytes(3, 1, FIF_Unknown, 0)
     \o ImageBytes(2, 1, <<P_raw>>) \o FrameInfoBytes(3, fc, <<0>>) :
        fc \in {MAX_FRAME_COUNT - 1, MAX_FRAME_COUNT, MAX_FRAME_COUNT + 1}}
    \cup
    {TexHeaderBytes(0, 0, 1, 1, 1, 1) \o ContainerBytes(v, 1, FIF_Unknown, 0)
     \o ImageBytes(2, 1, <<P_lz4big>>) : v \in {2, 3, 5}}
    \cup
    {NT(TEXI0001) \o NT(TEXI0001), NT(TEXV0005) \o NT(TEXV0005),
     TexHeaderBytes(0, IS_GIF, 1, 1, 1, 1) \o ContainerBytes(3, 0, FIF_Unknown, 0)
     \o FrameInfoBytes(4, 0, <<>>)}

TexInputs == TexLayoutInputs \cup TexCapInputs

TexModes == {TexReader_new, TexReader_without_decompression, TexReader_headers_only}

(***************************************************************************)
(* Textures for conversion: a texture format or image kind with a payload  *)
(* of that sort, the flags, storage and logical dimensions, one or two     *)
(* images with or without a mipmap, and a frame table.                     *)
(***************************************************************************)
Ftyp == <<0, 0, 0, 24, 102, 116, 121, 112, 105, 115, 111, 109>>

ConvCase(fmt, kind, version, mp4, prof) ==
    [fmt |-> fmt, kind |-> kind, version |-> version, mp4 |-> mp4, prof |-> prof]

ConvCases ==
    {ConvCase(0, FIF_Unknown, 3, 0, Profile(2, 1, 0, 0, Len(b), b)) :
        b \in {<<1, 2, 3, 4, 5, 6, 7, 8>>, <<1, 2, 3, 4>>, <<1, 2>>, <<1, 2, 3>>, <<>>}}
    \cup
    {ConvCase(0, FIF_Unknown, 3, 0, Profile(0, 0, 0, 0, 0, <<>>)),
     ConvCase(0, FIF_Unknown, 2, 0, Profile(2, 1, 1, 8, 9, <<128, 1, 2, 3, 4, 5, 6, 7, 8>>)),
     ConvCase(8, FIF_Unknown, 1, 0, Profile(2, 1, 0, 0, 2, <<1, 2>>)),
     ConvCase(8, FIF_Unknown, 3, 0, Profile(2, 1, 0, 0, 8, <<1, 2, 3, 4, 5, 6, 7, 8>>)),
     ConvCase(9, FIF_Unknown, 3, 0, Profile(2, 1, 0, 0, 4, <<1, 2, 3, 4>>)),
     ConvCase(7, FIF_Unknown, 3, 0, Profile(2, 1, 0, 0, 8, Repeat(9, 8))),
     ConvCase(6, FIF_Unknown, 3, 0, Profile(2, 1, 0, 0, 16, Repeat(9, 16))),
     ConvCase(6, FIF_Unknown, 2, 0, Profile(2, 1, 1, 16, 3, <<128, 1, 2>>)),
     ConvCase(4, FIF_Unknown, 3, 0, Profile(2, 1, 0, 0, 16, Repeat(9, 16))),
     ConvCase(5, FIF_Unknown, 3, 0, Profile(2, 1, 0, 0, 8, <<1, 2, 3, 4, 5, 6, 7, 8>>)),
     ConvCase(0, 13, 3, 0, Profile(2, 1, 0, 0, 6, Encoded("Png", Img(2, 1, "Rgba8")))),
     ConvCase(0, 13, 3, 0, Profile(2, 1, 0, 0, 5, Encoded("Jpeg", Img(2, 1, "Rgba8")))),
     ConvCase(0, 13, 4, 0, Profile(2, 1, 0, 0, 3, <<1, 2, 3>>)),
     ConvCase(0, 2, 3, 0, Profile(2, 1, 0, 0, 5, Encoded("Jpeg", Img(2, 1, "Rgba8")))),
     ConvCase(0, 17, 3, 0, Profile(2, 1, 0, 0, 2, Encoded("Tga", Img(2, 1, "Rgba8")))),
     ConvCase(0, FIF_Unknown, 4, 1, Profile(2, 1, 0, 0, 12, Ftyp)),
     ConvCase(0, FIF_Unknown, 4, 1, Profile(2, 1, 0, 0, 12, Repeat(7, 12))),
     ConvCase(0, FIF_Unknown, 4, 1, Profile(2, 1, 0, 0, 4, <<1, 2, 3, 4>>)),
     ConvCase(0, FIF_Unknown, 4, 1, Profile(2, 1, 0, 0, 8, SubSeq(Ftyp, 1, 8)))}

\* 0.5, 2.0, -1.0, -2.0 and 0.0625 as f32
F32_half == <<0, 0, 0, 63>>
F32_2 == <<0, 0, 0, 64>>
F32_m1 == <<0, 0, 128, 191>>
F32_m2 == <<0, 0, 0, 192>>
F32_16th == <<0, 0, 128, 61>>

\* a frame record: image_id, frametime, x, y, width, height_x, width_y, height
FrameRecord(image_id, frametime, width, height) ==
    LE32(image_id) \o frametime \o F32_0 \o F32_0 \o width \o F32_0 \o F32_0 \o height

FrameTable(frs) == NT(TEXS000 \o <<51>>) \o LE32(2) \o LE32(1) \o LE32(0) \o LE32(Len(frs))
                   \o Flatten(frs)

ConvFrameTables ==
    {FrameTable(<<>>),
     FrameTable(<<FrameRecord(0, F32_1, F32_2, F32_1)>>),
     FrameTable(<<FrameRecord(5, F32_1, F32_2, F32_1)>>),
     FrameTable(<<FrameRecord(1, F32_half, F32_1, F32_1), FrameRecord(0, F32_1, F32_2, F32_1)>>),
     FrameTable(<<FrameRecord(0, F32_1, F32_m1, F32_1)>>),
     FrameTable(<<FrameRecord(0, F32_1, F32_1, F32_m1), FrameRecord(7, F32_1, F32_1, F32_1)>>),
     FrameTable(<<FrameRecord(0, F32_1, F32_0, F32_1)>>)}

\* mipmap counts of the images
ImageShapes == {<<>>, <<0>>, <<1>>, <<1, 1>>, <<0, 1>>}

LogicalDims == {<<2, 1>>, <<1, 1>>, <<0, 1>>, <<3, 1>>}

ConvFile(c, flags, dims, shape, ft) ==
    TexHeaderBytes(c.fmt, flags, 2, 1, dims[1], dims[2])
    \o ContainerBytes(c.version, Len(shape), c.kind, c.mp4)
    \o Flatten([i \in 1..Len(shape) |->
          ImageBytes(HonestLayout(c.version, c.kind, c.mp4), shape[i],
                     [j \in 1..shape[i] |-> c.prof])])
    \o ft

TexConvInputs ==
    {ConvFile(c, flags, dims, shape, <<>>) :
        c \in ConvCases, flags \in {0, IS_VIDEO_TEXTURE}, dims \in LogicalDims,
        shape \in ImageShapes}
    \cup
    {ConvFile(c, flags, dims, shape, ft) :
        c \in ConvCases, flags \in {IS_GIF, IS_GIF + IS_VIDEO_TEXTURE}, dims \in LogicalDims,
        shape \in ImageShapes, ft \in ConvFrameTables}

(***************************************************************************)
(* The runs.                                                               *)
(***************************************************************************)
NoRd == [r |-> Cursor0, data_start |-> 0]

InitDec ==
    /\ comp = "dec" /\ pc = "start"
    /\ mip \in DecInputs /\ mip0 = mip /\ mip1 = mip /\ dres = <<>>
    /\ data = <<>> /\ mode = None /\ rd = NoRd /\ pkg = None /\ tex = None /\ conv = None
    /\ call = None /\ cli = None

\* decompressor.decompress(&mut mipmap), called once and then once more
Decompress ==
    /\ comp = "dec" /\ pc \in {"start", "once"}
    /\ \E d \in {decompress(mip)} :
           /\ mip' = d.m
           /\ dres' = Append(dres, IF d.err = "" THEN "Ok" ELSE d.err)
           /\ mip1' = IF pc = "start" THEN d.m ELSE mip1
    /\ pc' = IF pc = "start" THEN "once" ELSE "twice"
    /\ UNCHANGED <<comp, mip0, data, mode, rd, pkg, tex, conv, call, cli>>

InitPkg ==
    /\ comp = "pkg" /\ pc = "start"
    /\ data \in PkgInputs
    /\ mode \in {[read_entry_bytes |-> TRUE], [read_entry_bytes |-> FALSE]}
    /\ rd = NoRd /\ pkg = None /\ tex = None /\ conv = None
    /\ call = None /\ cli = None
    /\ mip = None /\ mip0 = None /\ mip1 = None /\ dres = <<>>

\* PackageReader::new() / info_only(), then read_from(&mut Cursor::new(data))
PkgReadFrom ==
    /\ comp = "pkg" /\ pc = "start"
    /\ \E p \in {PackageReader_read_from(data, mode.read_entry_bytes)} :
           /\ rd' = [r |-> p.r, data_start |-> p.data_start]
           /\ pkg' = p.v
    /\ pc' = "done"
    /\ UNCHANGED <<comp, mip, mip0, mip1, dres, data, mode, tex, conv, call, cli>>

InitTex ==
    /\ comp = "tex" /\ pc = "start"
    /\ data \in TexInputs
    /\ mode \in TexModes
    /\ rd = NoRd /\ pkg = None /\ tex = None /\ conv = None
    /\ call = None /\ cli = None
    /\ mip = None /\ mip0 = None /\ mip1 = None /\ dres = <<>>

InitConv ==
    /\ comp = "conv" /\ pc = "start"
    /\ data \in TexConvInputs
    /\ mode \in {TexReader_new, TexReader_without_decompression}
    /\ rd = NoRd /\ pkg = None /\ tex = None /\ conv = None
    /\ call = None /\ cli = None
    /\ mip = None /\ mip0 = None /\ mip1 = None /\ dres = <<>>

\* TexReader::new() / without_decompression() / headers_only(), then read_from
TexReadFrom ==
    /\ comp \in {"tex", "conv"} /\ pc = "start"
    /\ \E t \in {TexReader_read_from(data, mode)} :
           /\ rd' = [r |-> t.r, data_start |-> 0]
           /\ tex' = t.v
    /\ pc' = "parsed"
    /\ UNCHANGED <<comp, mip, mip0, mip1, dres, data, mode, pkg, conv, call, cli>>

\* TexToImageConverter::new().convert(&tex, format), with the codecs' outcomes
Convert ==
    /\ comp = "conv" /\ pc = "parsed" /\ rd.r.err = ""
    /\ \E format \in OutputFormats, codec \in Codecs :
          conv' = [requested |-> format, recommended |-> recommended_format(tex),
                   res |-> convert(tex, format, codec)]
    /\ pc' = "converted"
    /\ UNCHANGED <<comp, mip, mip0, mip1, dres, data, mode, rd, pkg, tex, call, cli>>

NextDec == Decompress

NextPkg == PkgReadFrom

SpecDec == InitDec /\ [][NextDec]_vars

NextTex == TexReadFrom

SpecPkg == InitPkg /\ [][NextPkg]_vars

SpecTex == InitTex /\ [][NextTex]_vars

NextConv == TexReadFrom \/ Convert

SpecConv == InitConv /\ [][NextConv]_vars

Init == InitDec \/ InitPkg \/ InitTex \/ InitConv

Next == NextDec \/ NextPkg \/ NextConv

Spec == Init /\ [][Next]_vars

InitInfer ==
    /\ comp = "fn" /\ pc = "start"
    /\ call \in [fn : {"infer_format_from_size"}, declared_format : MipmapFormats,
                 pixel_count : 0..MaxPixels, data_size : 0..MaxBytes, ret : {None}]
    /\ data = <<>> /\ mode = None /\ rd = NoRd /\ pkg = None /\ tex = None /\ conv = None
    /\ mip = None /\ mip0 = None /\ mip1 = None /\ dres = <<>> /\ cli = None

\* self.infer_format_from_size(mipmap.format, pixel_count, data_size)
Infer ==
    /\ comp = "fn" /\ pc = "start" /\ call.fn = "infer_format_from_size"
    /\ call' = [call EXCEPT !.ret = infer_format_from_size(call.declared_format,
                                        call.pixel_count, call.data_size)]
    /\ pc' = "returned"
    /\ UNCHANGED <<comp, mip, mip0, mip1, dres, data, mode, rd, pkg, tex, conv, cli>>

SpecInfer == InitInfer /\ [][Infer]_vars

\* frame records: extents of either sign or zero, and frame times
FrameExtents == {F32_0, F32_1, F32_m1, F32_2, F32_m2}

FrameTimes == {F32_0, F32_16th, F32_half, F32_1, F32_m1}

FrameInputs ==
    [image_id : {0}, frametime : FrameTimes, x : {F32_0}, y : {F32_0},
     width : FrameExtents, height_x : FrameExtents, width_y : FrameExtents,
     height : FrameExtents]

InitFrame ==
    /\ comp = "fn" /\ pc = "start"
    /\ call \in [fn : {"frame"}, frame_info : FrameInputs, source : {Img(2, 2, "Rgba8")},
                 ret : {None}]
    /\ data = <<>> /\ mode = None /\ rd = NoRd /\ pkg = None /\ tex = None /\ conv = None
    /\ mip = None /\ mip0 = None /\ mip1 = None /\ dres = <<>> /\ cli = None

\* one turn of the frame loop of convert_gif
Frame ==
    /\ comp = "fn" /\ pc = "start" /\ call.fn = "frame"
    /\ call' = [call EXCEPT !.ret = MakeFrame(call.frame_info, call.source,
                                              call.frame_info.image_id)]
    /\ pc' = "returned"
    /\ UNCHANGED <<comp, mip, mip0, mip1, dres, data, mode, rd, pkg, tex, conv, cli>>

SpecFrame == InitFrame /\ [][Frame]_vars

\* both readers
SpecRead == (InitPkg \/ InitTex) /\ [][NextPkg \/ NextTex]_vars

(***************************************************************************)
(* Properties of MipmapDecompressor (SpecDec).                             *)
(***************************************************************************)
\* C1 (as stated): whenever decompress(m) returns Ok, m.is_lz4_compressed is false
\* afterwards and, if m.format was block-compressed before the call, m.format is
\* RGBA8888 and len(m.bytes) = m.width * m.height * 4.
C1_DecompressPostcondition ==
    (comp = "dec" /\ pc = "once" /\ dres[1] = "Ok") =>
        /\ ~mip.is_lz4_compressed
        /\ is_compressed(mip0.format) =>
              /\ mip.format = "RGBA8888"
              /\ Len(mip.bytes) = mip0.width * mip0.height * 4

\* C2: decompress is idempotent: after a successful first call a second call also
\* succeeds and leaves bytes, format, is_lz4_compressed and
\* decompressed_bytes_count exactly as the first call left them.
C2_DecompressIdempotent ==
    (comp = "dec" /\ pc = "twice" /\ dres[1] = "Ok") =>
        /\ dres[2] = "Ok"
        /\ mip.bytes = mip1.bytes
        /\ mip.format = mip1.format
        /\ mip.is_lz4_compressed = mip1.is_lz4_compressed
        /\ mip.decompressed_bytes_count = mip1.decompressed_bytes_count

\* a second call after a first call that decoded both an LZ4 block and DXT blocks
C2_Witness ==
    /\ comp = "dec" /\ pc = "twice" /\ dres[1] = "Ok"
    /\ mip0.is_lz4_compressed /\ mip0.decompressed_bytes_count > 0
    /\ is_compressed(mip0.format)
    /\ mip1.bytes # mip0.bytes /\ mip1.format = "RGBA8888"

(***************************************************************************)
(* Properties of PackageReader (SpecPkg).                                  *)
(***************************************************************************)
PkgParsed == comp = "pkg" /\ pc = "done" /\ rd.r.err = ""

\* C6 (as stated): for every Package returned by read_from, in full and in
\* info-only mode, data_start + offset + length of each entry does not exceed the
\* input length, and total_data_size is the sum of the entries' lengths.
C6_EntryRangesInsideData ==
    PkgParsed =>
        /\ \A i \in 1..Len(pkg.entries) :
              Add(rd.data_start, Add(pkg.entries[i].offset, pkg.entries[i].length))
                  <= Len(data)
        /\ total_data_size(pkg) = SumLengths(pkg.entries, 1)

\* C10 (as stated): when the input ends inside a field, string or payload that
\* the reader is reading, read_from fails with the UnexpectedEof error kind.
C10_ShortReadIsUnexpectedEof ==
    (comp = "pkg" /\ pc = "done" /\ rd.r.short) => rd.r.err = "UnexpectedEof"

(***************************************************************************)
(* Properties of TexReader (SpecTex) and of both readers (SpecRead).       *)
(***************************************************************************)
TexDone == comp \in {"tex", "conv"} /\ pc # "start"

TexParsed == TexDone /\ rd.r.err = ""

Events(f) == {i \in 1..Len(rd.r.log) : rd.r.log[i].f = f}

\* the stream starts with both magics, a header and the container magic TEXB0004,
\* and goes on to the end of the is_mp4 field
IsV4Stream(d) ==
    /\ Len(d) >= 67
    /\ SubSeq(d, 1, 9) = NT(TEXV0005) /\ SubSeq(d, 10, 18) = NT(TEXI0001)
    /\ SubSeq(d, 47, 55) = NT(TEXB000 \o <<52>>)

\* declared kind decodes to unknown and is_mp4_flag is 1
EffectiveMp4(d) == FreeImageFormat_from(I32At(d, 59)) = FIF_Unknown /\ I32At(d, 63) = 1

\* the same stream as a TEXB0003 container: magic digit 3, no is_mp4 field
V3Twin(d) == SubSeq(d, 1, 53) \o <<51>> \o SubSeq(d, 55, 63) \o SubSeq(d, 68, Len(d))

\* a Tex with every recorded payload offset moved by delta
ShiftOffsets(t, delta) ==
    LET ims == t.images_container.images
        shifted == [i \in 1..Len(ims) |->
                      [mipmaps |-> [j \in 1..Len(ims[i].mipmaps) |->
                          [ims[i].mipmaps[j] EXCEPT !.file_offset = @ + delta]]]]
    IN  [t EXCEPT !.images_container.images = shifted]

FieldTrace(log) == [i \in 1..Len(log) |-> <<log[i].f, log[i].v>>]

\* C3: in a TEXB0004 container the per-mipmap preamble is consumed exactly when
\* the effective image kind is MP4; otherwise the parse reads the same fields,
\* consumes the same bytes and yields the same mipmaps as the TEXB0003 container
\* with the same image kind, and the stored container version is 3.
C3_V4ParsesAsV3UnlessMp4 ==
    (TexDone /\ IsV4Stream(data)) =>
        IF EffectiveMp4(data)
        THEN Cardinality(Events("v4_preamble")) = Cardinality(Events("mipmap"))
        ELSE LET t == TexReader_read_from(V3Twin(data), mode)
             IN  /\ Events("v4_preamble") = {}
                 /\ t.r.err = rd.r.err
                 /\ FieldTrace(t.r.log) = FieldTrace(rd.r.log)
                 /\ rd.r.err = "" =>
                       /\ rd.r.pos = t.r.pos + 4
                       /\ tex.images_container.version = 3
                       /\ ShiftOffsets(tex, -4) = t.v

\* a TEXB0004 stream of a non-MP4 kind parsed to the end, with a decoded LZ4 mipmap
C3_Witness ==
    /\ TexParsed /\ IsV4Stream(data) /\ ~EffectiveMp4(data)
    /\ mode = TexReader_new
    /\ Len(tex.images_container.images) > 0
    /\ Len(tex.images_container.images[1].mipmaps) > 0
    /\ tex.images_container.images[1].mipmaps[1].original_byte_count = 5
    /\ tex.images_container.images[1].mipmaps[1].bytes = <<1, 2, 3, 4>>

FramesPresent == tex.frame_info_container # None

\* C5 (as stated): frame_info_container is present exactly when the is-animated
\* flag is set, and when present it holds at least one frame record.
C5_FrameInfoPresentAndNonEmpty ==
    TexParsed =>
        /\ FramesPresent <=> contains(tex.header.flags, IS_GIF)
        /\ FramesPresent => Len(tex.frame_info_container.frames) >= 1

\* C5 (amended): frame_info_container is present exactly when the is-animated flag
\* is set, and when present it holds exactly the declared frame_count records,
\* which may be none.
C5_FrameInfoPresentIffAnimated ==
    TexParsed =>
        /\ FramesPresent <=> contains(tex.header.flags, IS_GIF)
        /\ FramesPresent =>
              /\ Events("frame_count") # {}
              /\ \A i \in Events("frame_count") :
                    Len(tex.frame_info_container.frames) = rd.r.log[i].v

\* an animated texture parsed with a frame table of zero records
C5_Witness ==
    /\ TexParsed /\ contains(tex.header.flags, IS_GIF)
    /\ FramesPresent /\ Len(tex.frame_info_container.frames) = 0

AllMipmaps ==
    {<<i, j>> \in (1..MaxImages + 1) \X (1..MAX_MIPMAP_COUNT) :
        /\ i <= Len(tex.images_container.images)
        /\ j <= Len(tex.images_container.images[i].mipmaps)}

\* C7: a payload whose start offset plus byte_count exceeds the stream length
\* fails with SafetyLimit and nothing is read or allocated for it; the cursor is
\* back at the payload start after the length probe; every payload buffer is
\* allocated only after a passed probe; so every mipmap of a parsed Tex has
\* file_offset + original_byte_count <= stream length.
C7_PayloadProbe ==
    TexDone =>
        /\ \A i \in Events("probe") :
              /\ rd.r.log[i].at = rd.r.log[i].aux
              /\ Add(rd.r.log[i].aux, rd.r.log[i].v) > Len(data) =>
                    /\ rd.r.err = "SafetyLimit"
                    /\ i = Len(rd.r.log)
                    /\ rd.r.pos = rd.r.log[i].aux
        /\ \A i \in Events("alloc") :
              /\ i > 1 /\ rd.r.log[i - 1].f = "probe"
              /\ rd.r.log[i - 1].v = rd.r.log[i].v
              /\ Add(rd.r.log[i - 1].aux, rd.r.log[i].v) <= Len(data)
        /\ rd.r.err = "" =>
              \A ij \in AllMipmaps :
                 LET m == tex.images_container.images[ij[1]].mipmaps[ij[2]]
                 IN  Add(m.file_offset, m.original_byte_count) <= Len(data)

\* a v4 record with preamble, in header-only mode, whose payload runs past the end
C7_Witness ==
    /\ TexDone /\ rd.r.err = "SafetyLimit" /\ mode = TexReader_headers_only
    /\ Events("v4_preamble") # {}
    /\ Len(rd.r.log) > 0
    /\ rd.r.log[Len(rd.r.log)].f = "probe"
    /\ rd.r.log[Len(rd.r.log)].aux + rd.r.log[Len(rd.r.log)].v > Len(data)

Guarded == {"magic_len", "path_len", "entry_count", "image_count", "mipmap_count",
            "frame_count"}

OverCap(e) == e.f \in Guarded /\ (e.v > e.aux \/ (e.f = "image_count" /\ e.v < 0))

AtCap(e) == e.f \in Guarded /\ e.v = e.aux

\* C8: once a count or length field over its cap (or a negative image_count) has
\* been read, read_from fails with SafetyLimit and nothing governed by the field
\* is read, reserved or allocated: the field is the last thing the reader did.
C8_OverCapFailsFirst ==
    (comp \in {"pkg", "tex"} /\ pc # "start") =>
        \A i \in 1..Len(rd.r.log) :
            OverCap(rd.r.log[i]) =>
                /\ rd.r.err = "SafetyLimit"
                /\ i = Len(rd.r.log)
                /\ rd.r.pos = rd.r.log[i].at

\* a package whose magic_len is 65
C8_Witness ==
    /\ comp = "pkg" /\ pc = "done" /\ rd.r.err = "SafetyLimit"
    /\ Len(rd.r.log) = 1
    /\ rd.r.log[1].f = "magic_len" /\ rd.r.log[1].v = MAX_MAGIC_LENGTH + 1

\* the failure is the cap check of the last field read
FailedAtField(i) == rd.r.err = "SafetyLimit" /\ i = Len(rd.r.log)

\* C9 (as stated): a field exactly at its cap fails with SafetyLimit just as a
\* value one above does, and an LZ4 decompressed size at or above its cap fails
\* with SafetyLimit.
C9_AtCapFails ==
    (comp \in {"pkg", "tex"} /\ pc # "start") =>
        \A i \in 1..Len(rd.r.log) :
            (AtCap(rd.r.log[i])
             \/ (OverCap(rd.r.log[i]) /\ rd.r.log[i].v = rd.r.log[i].aux + 1))
                => FailedAtField(i)

\* C9 (amended): a field exactly at its cap passes the check and the reader goes
\* on; a value one above fails with SafetyLimit; the LZ4 decompressed size has no
\* cap, so SafetyLimit comes only from an over-cap field or a failed length probe.
C9_AtCapAccepted ==
    (comp \in {"pkg", "tex"} /\ pc # "start") =>
        /\ \A i \in 1..Len(rd.r.log) :
              /\ AtCap(rd.r.log[i]) => ~FailedAtField(i)
              /\ (OverCap(rd.r.log[i]) /\ rd.r.log[i].v = rd.r.log[i].aux + 1)
                    => FailedAtField(i)
        /\ rd.r.err = "SafetyLimit" =>
              /\ Len(rd.r.log) > 0
              /\ \/ OverCap(rd.r.log[Len(rd.r.log)])
                 \/ /\ rd.r.log[Len(rd.r.log)].f = "probe"
                    /\ Add(rd.r.log[Len(rd.r.log)].aux, rd.r.log[Len(rd.r.log)].v) > Len(data)

\* an image with exactly MAX_MIPMAP_COUNT mipmaps parsed to the end
C9_Witness ==
    /\ TexParsed
    /\ \E i \in Events("mipmap_count") : rd.r.log[i].v = MAX_MIPMAP_COUNT
    /\ Len(tex.images_container.images) = 1
    /\ Len(tex.images_container.images[1].mipmaps) = MAX_MIPMAP_COUNT

(***************************************************************************)
(* Properties of TexToImageConverter on parsed textures (SpecConv).        *)
(***************************************************************************)
ConvertedRecommended ==
    /\ comp = "conv" /\ pc = "converted" /\ mode = TexReader_new
    /\ conv.requested = conv.recommended

\* C4 (as stated): for every Tex parsed by the full-mode reader,
\* convert(tex, recommended_format(tex)) returns Ok.
C4_RecommendedAlwaysConverts == ConvertedRecommended => conv.res.err = ""

\* the payload holds width*height pixels of one, two or four bytes, not embedded
RawPixels(m) ==
    /\ ~is_image(m.format)
    /\ m.width > 0 /\ m.height > 0
    /\ Len(m.bytes) \in {m.width * m.height, 2 * m.width * m.height, 4 * m.width * m.height}

VideoConvertible(t) ==
    /\ has_first_mipmap(t)
    /\ \/ Len(first_mipmap(t).bytes) < 12
       \/ SubSeq(first_mipmap(t).bytes, 5, 8) = <<102, 116, 121, 112>>

StaticConvertible(t) ==
    /\ has_first_mipmap(t)
    /\ RawPixels(first_mipmap(t))
    /\ t.header.image_width > 0 /\ t.header.image_height > 0

\* every image has raw pixels, some frame names an image, and every frame that
\* names an image has a size of 1..65535 each way
AnimatedConvertible(t) ==
    LET images == t.images_container.images
        frames == t.frame_info_container.frames
        valid == {i \in 1..Len(frames) : frames[i].image_id < Len(images)}
    IN  /\ \A i \in 1..Len(images) :
              Len(images[i].mipmaps) > 0 /\ RawPixels(images[i].mipmaps[1])
        /\ valid # {}
        /\ \A i \in valid :
              /\ gif_width(frames[i]) \in 1..65535
              /\ gif_height(frames[i]) \in 1..65535

Convertible(t) ==
    IF is_video(t) THEN VideoConvertible(t)
    ELSE IF is_gif(t) THEN AnimatedConvertible(t)
    ELSE StaticConvertible(t)

\* C4 (amended): for a Tex parsed by the full-mode reader,
\* convert(tex, recommended_format(tex)) returns Ok, in the recommended format,
\* when the texture has what its path needs: a video texture a first mipmap whose
\* payload is shorter than 12 bytes or has 'ftyp' at bytes 4..8; a static texture
\* a first mipmap of raw pixels (len = w*h*1, 2 or 4, w and h non-zero) and
\* non-zero logical dimensions; an animated texture raw pixels in every image and
\* a frame naming an image, each such frame 1..65535 wide and high.
C4_RecommendedConvertsWhenConvertible ==
    (ConvertedRecommended /\ Convertible(tex)) =>
        conv.res.err = "" /\ conv.res.format = conv.recommended

\* a static texture whose RGBA8888-declared payload has the R8 size, converted to PNG
C4_Witness ==
    /\ ConvertedRecommended /\ ~is_video(tex) /\ ~is_gif(tex)
    /\ Convertible(tex)
    /\ first_mipmap(tex).format = "RGBA8888" /\ Len(first_mipmap(tex).bytes) = 2
    /\ conv.res.format = "Png"

(***************************************************************************)
(* The reader modes compared (SpecTex, SpecPkg).                           *)
(***************************************************************************)
\* a Tex with every mipmap's bytes emptied
WithoutPayloads(t) ==
    LET ims == t.images_container.images
    IN  [t EXCEPT !.images_container.images =
            [i \in 1..Len(ims) |->
                [mipmaps |-> [j \in 1..Len(ims[i].mipmaps) |->
                    [ims[i].mipmaps[j] EXCEPT !.bytes = <<>>]]]]]

MipmapsOf(t) ==
    LET ims == t.images_container.images
    IN  UNION {{ims[i].mipmaps[j] : j \in 1..Len(ims[i].mipmaps)} : i \in 1..Len(ims)}

\* C11: on every input headers_only succeeds exactly when without_decompression
\* succeeds; the two Tex values agree on everything but the mipmap bytes (header,
\* container version, image kind, image and mipmap counts, each mipmap's width,
\* height, LZ4 flag, decompressed size, original_byte_count, file_offset, and the
\* frame info); headers-only bytes are empty and each no-decompress payload is
\* input[file_offset .. file_offset + original_byte_count].
C11_HeadersOnlyAgrees ==
    (TexDone /\ comp = "tex" /\ mode = TexReader_headers_only) =>
        LET nd == TexReader_read_from(data, TexReader_without_decompression)
        IN  /\ (rd.r.err = "") <=> (nd.r.err = "")
            /\ rd.r.err = "" =>
                  /\ tex = WithoutPayloads(nd.v)
                  /\ \A m \in MipmapsOf(tex) : m.bytes = <<>>
                  /\ \A m \in MipmapsOf(nd.v) :
                        /\ Len(m.bytes) = m.original_byte_count
                        /\ m.bytes = SubSeq(data, m.file_offset + 1,
                                            m.file_offset + m.original_byte_count)

\* a headers-only parse to the end of two mipmaps, the first with a stored payload
C11_Witness ==
    /\ TexParsed /\ comp = "tex" /\ mode = TexReader_headers_only
    /\ Len(tex.images_container.images) > 0
    /\ Len(tex.images_container.images[1].mipmaps) = 2
    /\ tex.images_container.images[1].mipmaps[1].original_byte_count > 0
    /\ tex.images_container.images[1].mipmaps[1].is_lz4_compressed
    /\ tex.frame_info_container # None

\* an entry without its bytes
EntryInfo(e) == [full_path |-> e.full_path, offset |-> e.offset, length |-> e.length,
                 entry_type |-> e.entry_type]

\* C12: on every input on which both modes succeed, the full and the info-only
\* PackageReader agree on magic, header_size and each entry's path, offset, length
\* and kind, in directory order; in full mode every entry's bytes are present, of
\* len == length and equal to input[data_start + offset .. data_start + offset +
\* length]; in info-only mode every entry's bytes are absent.
C12_PackageModesAgree ==
    PkgParsed =>
        LET other == PackageReader_read_from(data, ~mode.read_entry_bytes)
            full  == IF mode.read_entry_bytes THEN pkg ELSE other.v
            info  == IF mode.read_entry_bytes THEN other.v ELSE pkg
        IN  other.r.err = "" =>
              /\ full.magic = info.magic
              /\ full.header_size = info.header_size
              /\ rd.data_start = other.data_start
              /\ Len(full.entries) = Len(info.entries)
              /\ \A i \in 1..Len(full.entries) :
                    /\ EntryInfo(full.entries[i]) = EntryInfo(info.entries[i])
                    /\ info.entries[i].bytes = NoBytes
                    /\ full.entries[i].bytes.some
                    /\ \/ full.entries[i].length = 0
                       \/ rd.data_start + full.entries[i].offset
                              + full.entries[i].length <= Len(data)
                    /\ full.entries[i].bytes =
                          SomeBytes(SubSeq(data,
                              rd.data_start + full.entries[i].offset + 1,
                              rd.data_start + full.entries[i].offset
                                  + full.entries[i].length))
                    /\ Len(full.entries[i].bytes.v) = full.entries[i].length

\* a full-mode parse of two entries, the second at a non-zero offset
C12_Witness ==
    /\ PkgParsed /\ mode.read_entry_bytes
    /\ Len(pkg.entries) = 2
    /\ pkg.entries[2].offset > 0 /\ pkg.entries[2].length > 0
    /\ pkg.entries[1].bytes # pkg.entries[2].bytes

(***************************************************************************)
(* Video textures (SpecConv).                                              *)
(***************************************************************************)
Converted == comp = "conv" /\ pc = "converted"

\* 'ftyp' at bytes 4..8
HasFtyp(b) == Len(b) >= 8 /\ SubSeq(b, 5, 8) = <<102, 116, 121, 112>>

\* C13: for a texture with the video flag whose first image's first mipmap has
\* 'ftyp' at bytes 4..8, convert (whatever format is requested) returns exactly
\* that mipmap's bytes, same length and content, with actual format MP4, and the
\* texture is the same after the call as before.
C13_VideoPassThrough ==
    [][(/\ comp = "conv" /\ pc = "parsed" /\ pc' = "converted"
        /\ is_video(tex) /\ has_first_mipmap(tex)
        /\ HasFtyp(first_mipmap(tex).bytes))
          => /\ tex' = tex
             /\ conv'.res.err = ""
             /\ conv'.res.format = "Mp4"
             /\ Len(conv'.res.bytes) = Len(first_mipmap(tex).bytes)
             /\ conv'.res.bytes = first_mipmap(tex).bytes]_vars

\* a video texture with a twelve-byte ftyp payload converted on a request for PNG
C13_Witness ==
    /\ Converted /\ is_video(tex) /\ has_first_mipmap(tex)
    /\ first_mipmap(tex).bytes = Ftyp
    /\ conv.requested = "Png" /\ conv.res.err = ""

\* C14: for a texture with the video flag, convert returns Ok only if the first
\* mipmap's payload has 'ftyp' at bytes 4..8; every other payload, of any length
\* (shorter than 12 bytes and empty ones too), yields InvalidData.
C14_VideoRequiresFtyp ==
    (Converted /\ is_video(tex)) =>
        /\ conv.res.err = "" => (has_first_mipmap(tex) /\ HasFtyp(first_mipmap(tex).bytes))
        /\ ~(has_first_mipmap(tex) /\ HasFtyp(first_mipmap(tex).bytes))
              => conv.res.err = "InvalidData"

\* C15 (as stated): for a texture with the video flag, convert with a requested
\* format other than MP4 returns an error, not output bytes.
C15_VideoOtherFormatFails ==
    (Converted /\ is_video(tex) /\ conv.requested # "Mp4") => conv.res.err # ""

\* C15 (amended): for a texture with the video flag, convert with a requested
\* format other than MP4 never returns output in the requested format: it returns
\* either InvalidData or the first mipmap's bytes with actual format MP4.
C15_VideoOtherFormatIsMp4 ==
    (Converted /\ is_video(tex) /\ conv.requested # "Mp4") =>
        \/ conv.res.err = "InvalidData"
        \/ /\ conv.res.err = "" /\ conv.res.format = "Mp4"
           /\ has_first_mipmap(tex) /\ conv.res.bytes = first_mipmap(tex).bytes

\* a video texture holding raw pixels that would encode as PNG, asked for as PNG
C15_Witness ==
    /\ Converted /\ is_video(tex) /\ ~is_gif(tex) /\ conv.requested = "Png"
    /\ StaticConvertible(tex)
    /\ conv.res.err = "" /\ conv.res.format = "Mp4"

(***************************************************************************)
(* Static textures (SpecConv).                                             *)
(***************************************************************************)
ConvertedStatic == Converted /\ ~is_video(tex) /\ ~is_gif(tex) /\ has_first_mipmap(tex)

\* C16: for a static texture whose first mipmap has an embedded-image format,
\* convert with the matching output format returns Ok with the mipmap's bytes and
\* the requested format, whatever the payload: no decoding decides the outcome.
C16_EmbeddedPassThrough ==
    (/\ ConvertedStatic
     /\ is_image(first_mipmap(tex).format)
     /\ formats_match(first_mipmap(tex).format, conv.requested))
        => conv.res = ConvOk(first_mipmap(tex).bytes, conv.requested)

\* the width and height an encoded file holds
EncodedDims(bytes) == <<bytes[Len(bytes) - 1], bytes[Len(bytes)]>>

\* C17: whenever convert decodes and re-encodes a static texture whose logical
\* dimensions differ from its storage dimensions (raw pixels, or an embedded image
\* re-encoded to another format), the encoded image has exactly the header's
\* logical width and height.
C17_CroppedToLogical ==
    (/\ ConvertedStatic
     /\ needs_crop(tex.header)
     /\ ~formats_match(first_mipmap(tex).format, conv.requested)
     /\ conv.res.err = "")
        => EncodedDims(conv.res.bytes) = <<tex.header.image_width, tex.header.image_height>>

\* the format mipmap_to_image decodes the mipmap as
ChosenFormat(m) == infer_format_from_size(m.format, Mul(m.width, m.height), Len(m.bytes))

RawFirstMipmap == Converted /\ has_first_mipmap(tex) /\ is_raw(first_mipmap(tex).format)

\* b divides the quotient len / pixel_count, which has to exist and be whole
DividesRatio(b, len, pixel_count) ==
    /\ pixel_count > 0
    /\ len % pixel_count = 0
    /\ (len \div pixel_count) % b = 0

\* C18 as stated: for a raw mipmap the chosen format is one of RGBA8888, RG88, R8
\* and its bytes per pixel exactly divide len(bytes) / (width * height), for every
\* declared raw format, dimensions and payload length.
C18_ChosenFormatDivides ==
    RawFirstMipmap =>
        LET m == first_mipmap(tex)
        IN  /\ ChosenFormat(m) \in {"RGBA8888", "RG88", "R8"}
            /\ DividesRatio(bytes_per_pixel(ChosenFormat(m)), Len(m.bytes),
                            Mul(m.width, m.height))

\* C18 amended: for a raw mipmap the chosen format is one of RGBA8888, RG88, R8;
\* when the payload length is 1, 2 or 4 times width * height the chosen format's
\* bytes per pixel times width * height equal the payload length, and for every
\* other length the declared format is kept.
C18_ChosenFormatFitsOrDeclared ==
    RawFirstMipmap =>
        LET m == first_mipmap(tex)
            pixel_count == Mul(m.width, m.height)
        IN  /\ ChosenFormat(m) \in {"RGBA8888", "RG88", "R8"}
            /\ IF Len(m.bytes) \in {pixel_count, Mul(pixel_count, 2), Mul(pixel_count, 4)}
               THEN Mul(pixel_count, bytes_per_pixel(ChosenFormat(m))) = Len(m.bytes)
               ELSE ChosenFormat(m) = m.format

C18_Witness ==
    /\ ConvertedStatic
    /\ first_mipmap(tex).format = "RGBA8888"
    /\ first_mipmap(tex).width = 2 /\ first_mipmap(tex).height = 1
    /\ Len(first_mipmap(tex).bytes) = 4
    /\ ChosenFormat(first_mipmap(tex)) = "RG88"
    /\ conv.res.err = ""

(***************************************************************************)
(* The recommended format and the dispatch of convert (SpecConv).          *)
(***************************************************************************)
\* C19: recommended_format is MP4 whenever the video flag is set (the animated
\* flag set or not), GIF when the animated flag is set without the video flag and
\* PNG otherwise; convert dispatches with the same precedence, so a successful
\* conversion to the recommended format has the recommended format as its actual
\* format, a video texture's result being the first mipmap's payload.
C19_RecommendedPrecedence ==
    Converted =>
        /\ is_video(tex) => conv.recommended = "Mp4"
        /\ (is_gif(tex) /\ ~is_video(tex)) => conv.recommended = "Gif"
        /\ (~is_gif(tex) /\ ~is_video(tex)) => conv.recommended = "Png"
        /\ (conv.requested = conv.recommended /\ conv.res.err = "") =>
              /\ conv.res.format = conv.recommended
              /\ is_video(tex) =>
                    (has_first_mipmap(tex) /\ conv.res.bytes = first_mipmap(tex).bytes)

C19_Witness ==
    /\ Converted
    /\ is_video(tex) /\ is_gif(tex)
    /\ tex.frame_info_container # None
    /\ conv.recommended = "Mp4" /\ conv.requested = "Mp4"
    /\ conv.res.err = "" /\ conv.res.format = "Mp4"

(***************************************************************************)
(* Block formats in the decompressor and in a full parse (Spec).           *)
(***************************************************************************)
\* the mipmap as the block decoder gets it, after the LZ4 stage of decompress
AfterLz4(m) ==
    IF m.is_lz4_compressed THEN decompress_lz4(m) ELSE [err |-> "", details |-> "", m |-> m]

Decompressed == comp = "dec" /\ pc # "start"

\* BC1 and BC3 mipmaps are decoded: with whole blocks for the dimensions the call
\* is Ok, and an Ok call leaves RGBA8888 with width * height * 4 bytes
Bc1Bc3Decoded ==
    (Decompressed /\ mip0.format \in {"CompressedDXT1", "CompressedDXT5"}) =>
        /\ (/\ AfterLz4(mip0).err = ""
            /\ Len(AfterLz4(mip0).m.bytes)
                  >= BlockGridBytes(mip0.format, mip0.width, mip0.height))
              => dres[1] = "Ok"
        /\ dres[1] = "Ok" =>
              /\ mip1.format = "RGBA8888"
              /\ Len(mip1.bytes) = Mul(Mul(mip0.width, mip0.height), 4)

\* a full-mode parse of a file that holds a BC2 mipmap with a non-empty payload
FullParseOfBc2 ==
    /\ comp \in {"tex", "conv"} /\ pc # "start" /\ mode = TexReader_new
    /\ LET nd == TexReader_read_from(data, TexReader_without_decompression)
       IN  /\ nd.r.err = ""
           /\ \E m \in MipmapsOf(nd.v) : m.format = "CompressedDXT3" /\ has_data(m)

\* some mipmap of the file has an LZ4 block that does not decode
SomeLz4Fails ==
    \E m \in MipmapsOf(TexReader_read_from(data, TexReader_without_decompression).v) :
        m.is_lz4_compressed /\ decompress_lz4(m).err # ""

\* C20 as stated: decompress on a BC2 mipmap fails with DxtDecompression carrying
\* the details "BC2 not supported", BC1 and BC3 mipmaps are decoded, and a
\* full-mode parse of a BC2 texture with a non-empty payload returns that error
\* and no Tex.
C20_Bc2Rejected ==
    /\ (Decompressed /\ mip0.format = "CompressedDXT3") =>
           /\ dres[1] = "DxtDecompression"
           /\ decompress(mip0).details = "BC2 not supported"
    /\ Bc1Bc3Decoded
    /\ FullParseOfBc2 =>
           /\ rd.r.err = "DxtDecompression"
           /\ rd.r.details = "BC2 not supported"
           /\ tex = None

\* C20 amended: decompress on a BC2 mipmap fails; unless its LZ4 stage has failed
\* first (Lz4Decompression), the error is DxtDecompression carrying the details
\* "DXT3/BC2 decompression not yet supported" and the mipmap keeps its format;
\* BC1 and BC3 mipmaps are decoded; a full-mode parse of a BC2 texture with a
\* non-empty payload returns one of these two errors, with the same details, and
\* no Tex.
C20_Bc2RejectedNotYetSupported ==
    /\ (Decompressed /\ mip0.format = "CompressedDXT3") =>
           /\ dres[1] # "Ok"
           /\ AfterLz4(mip0).err # "" => dres[1] = "Lz4Decompression"
           /\ AfterLz4(mip0).err = "" =>
                 /\ dres[1] = "DxtDecompression"
                 /\ decompress(mip0).details = "DXT3/BC2 decompression not yet supported"
                 /\ mip1.format = "CompressedDXT3"
    /\ Bc1Bc3Decoded
    /\ FullParseOfBc2 =>
           /\ tex = None
           /\ \/ /\ rd.r.err = "DxtDecompression"
                 /\ rd.r.details = "DXT3/BC2 decompression not yet supported"
              \/ rd.r.err = "Lz4Decompression" /\ SomeLz4Fails

C20_Witness ==
    /\ FullParseOfBc2
    /\ comp = "conv"
    /\ rd.r.err = "DxtDecompression"
    /\ rd.r.details = "DXT3/BC2 decompression not yet supported"
    /\ tex = None

C20_WitnessDecoded ==
    /\ Decompressed /\ mip0.format = "CompressedDXT5" /\ mip0.is_lz4_compressed
    /\ mip0.width > 0 /\ mip0.height > 0
    /\ dres[1] = "Ok" /\ mip1.format = "RGBA8888"

(***************************************************************************)
(* infer_format_from_size called on its own (SpecInfer).                   *)
(***************************************************************************)
Inferred == comp = "fn" /\ pc = "returned" /\ call.fn = "infer_format_from_size"

\* C22: infer_format_from_size(declared, n, len) returns declared when declared
\* is raw and len = n * bpp(declared); otherwise RGBA8888 if len = 4n, else RG88
\* if len = 2n, else R8 if len = n, else declared; for every declared format and
\* every n and len, n = 0 included.
C22_InferBySize ==
    Inferred =>
        LET declared == call.declared_format
            n == call.pixel_count
            len == call.data_size
            bpp == CASE declared = "RGBA8888" -> 4
                     [] declared = "RG88" -> 2
                     [] declared = "R8" -> 1
                     [] OTHER -> 0
        IN  call.ret =
              IF declared \in {"RGBA8888", "RG88", "R8"} /\ len = n * bpp THEN declared
              ELSE IF len = 4 * n THEN "RGBA8888"
              ELSE IF len = 2 * n THEN "RG88"
              ELSE IF len = n THEN "R8"
              ELSE declared

C22_Witness ==
    /\ Inferred
    /\ call.declared_format = "CompressedDXT1"
    /\ call.pixel_count = 0 /\ call.data_size = 0
    /\ call.ret = "RGBA8888"

(***************************************************************************)
(* Mipmaps after a full-mode parse (Spec).                                 *)
(***************************************************************************)
FullParse == comp \in {"tex", "conv"} /\ pc # "start" /\ mode = TexReader_new

\* the same file read without the decompressor: the mipmaps as stored
Stored == TexReader_read_from(data, TexReader_without_decompression)

DerivedFormat(t) == mipmap_format(t.images_container.image_format, t.header.format)

\* C23: after a successful full-mode read_from every mipmap was initialised to
\* the container's derived format and every mipmap with a non-empty payload is
\* what the decompressor made of it, so none of them has a block-compressed
\* format; a mipmap with an empty payload keeps the derived format; and if the
\* decompression of a mipmap fails, read_from returns that error and no Tex.
C23_FullModeDecompresses ==
    FullParse =>
        /\ rd.r.err = "" =>
              /\ Stored.r.err = ""
              /\ \A m \in MipmapsOf(tex) : has_data(m) => ~is_compressed(m.format)
              /\ LET ims == tex.images_container.images
                     sts == Stored.v.images_container.images
                 IN  /\ Len(ims) = Len(sts)
                     /\ \A i \in 1..Len(ims) :
                           /\ Len(ims[i].mipmaps) = Len(sts[i].mipmaps)
                           /\ \A j \in 1..Len(ims[i].mipmaps) :
                                 LET m == ims[i].mipmaps[j]
                                     m0 == sts[i].mipmaps[j]
                                 IN  /\ m0.format = DerivedFormat(tex)
                                     /\ has_data(m0) =>
                                           (decompress(m0).err = "" /\ m = decompress(m0).m)
                                     /\ ~has_data(m0) => m = m0
        /\ (/\ Stored.r.err = ""
            /\ \E m0 \in MipmapsOf(Stored.v) : has_data(m0) /\ decompress(m0).err # "")
              => /\ tex = None
                 /\ rd.r.err \in {"Lz4Decompression", "DxtDecompression"}
                 /\ \E m0 \in MipmapsOf(Stored.v) :
                       /\ has_data(m0)
                       /\ rd.r.err = decompress(m0).err
                       /\ rd.r.details = decompress(m0).details

C23_Witness ==
    /\ FullParse /\ rd.r.err = ""
    /\ \E m0 \in MipmapsOf(Stored.v) : has_data(m0) /\ m0.format = "CompressedDXT1"
    /\ \E m \in MipmapsOf(tex) : has_data(m) /\ m.format = "RGBA8888"

(***************************************************************************)
(* Animated textures (SpecConv).                                           *)
(***************************************************************************)
\* the decoded source images of the texture, as convert_gif collects them
Sources == SourceImages(tex.images_container.images, 1, <<>>)

\* a conversion of an animated texture that has reached the frame loop
FrameLoopReached ==
    /\ Converted /\ is_gif(tex) /\ ~is_video(tex)
    /\ tex.frame_info_container # None
    /\ Len(tex.images_container.images) > 0
    /\ Sources.err = "" /\ Len(Sources.v) > 0

InBounds(f) == f.image_id < Len(Sources.v)

\* the frame records with a valid source index, in file order
ValidFrames == SelectSeq(tex.frame_info_container.frames, InBounds)

\* the frames emitted for them, in the same order
FramesEmitted ==
    [k \in 1..Len(ValidFrames) |->
        MakeFrame(ValidFrames[k], Sources.v[ValidFrames[k].image_id + 1],
                  ValidFrames[k].image_id)]

\* a successful GIF holds the frames of the valid records, in file order
GifHoldsValidFrames ==
    (conv.requested = "Gif" /\ conv.res.err = "") =>
        /\ Len(ValidFrames) > 0
        /\ conv.res = encode_frames(FramesEmitted, [zero_dim_ok |-> TRUE, jpeg_alpha_ok |-> TRUE])

\* C24 as stated: a frame whose image_id is no valid source-image index is
\* skipped without error, the remaining frames are emitted in file order, and the
\* conversion fails with InvalidData exactly when no frame at all is produced.
C24_SkipOutOfBounds ==
    FrameLoopReached =>
        /\ GifHoldsValidFrames
        /\ conv.res.err = "InvalidData" <=> Len(ValidFrames) = 0

\* C24 amended: a frame whose image_id is no valid source-image index is skipped
\* without error and the remaining frames are emitted in file order; the
\* conversion fails with InvalidData whenever no frame at all is produced, and
\* when a frame is produced it fails with InvalidData exactly when MP4 was
\* requested.
C24_SkipOutOfBoundsUnlessMp4 ==
    FrameLoopReached =>
        /\ GifHoldsValidFrames
        /\ Len(ValidFrames) = 0 => conv.res.err = "InvalidData"
        /\ Len(ValidFrames) > 0 => (conv.res.err = "InvalidData" <=> conv.requested = "Mp4")

C24_Witness ==
    /\ FrameLoopReached
    /\ Len(tex.frame_info_container.frames) = 2
    /\ ~InBounds(tex.frame_info_container.frames[1])
    /\ InBounds(tex.frame_info_container.frames[2])
    /\ conv.requested = "Gif" /\ conv.res.err = ""
    /\ conv.res.bytes[Len(conv.res.bytes)] = 1

\* the first mipmap of an image decoded to pixels, as convert_gif decodes it
DecodedFirst(image) ==
    LET mipmap == image.mipmaps[1]
    IN  IF is_image(mipmap.format) THEN load_from_memory(mipmap.bytes).img
        ELSE mipmap_to_image(mipmap).img

\* C25: in animated conversion a frame record with image_id = i is cropped from
\* the decoded first mipmap of the i-th image of the image container, also when
\* some image of the container has no mipmaps.
C25_FrameSourceIsIthImage ==
    (FrameLoopReached /\ conv.res.err = "") =>
        \A k \in 1..Len(ValidFrames) :
            LET i == ValidFrames[k].image_id
                images == tex.images_container.images
            IN  /\ i < Len(images)
                /\ Len(images[i + 1].mipmaps) > 0
                /\ Sources.v[i + 1] = DecodedFirst(images[i + 1])

(***************************************************************************)
(* One frame of an animation (SpecFrame).                                  *)
(***************************************************************************)
FrameMade == comp = "fn" /\ pc = "returned" /\ call.fn = "frame"

\* w = width if width # 0 else height_x, h = height if height # 0 else width_y,
\* as values with 10 fractional bits
ExtentW == IF F32Fixed(call.frame_info.width) # 0 THEN F32Fixed(call.frame_info.width)
           ELSE F32Fixed(call.frame_info.height_x)

ExtentH == IF F32Fixed(call.frame_info.height) # 0 THEN F32Fixed(call.frame_info.height)
           ELSE F32Fixed(call.frame_info.width_y)

\* C26: the lossless restore rotation of a frame depends only on the signs of w
\* and h (zero counting as positive): none for (+,+), 90 degrees for (+,-), 180
\* degrees for (-,-) and 270 degrees for (-,+).
C26_RotationBySigns ==
    FrameMade =>
        call.ret.rot = CASE ExtentW >= 0 /\ ExtentH >= 0 -> 0
                         [] ExtentW >= 0 /\ ExtentH < 0 -> 90
                         [] ExtentW < 0 /\ ExtentH < 0 -> 180
                         [] OTHER -> 270

C26_Witness ==
    /\ FrameMade
    /\ call.frame_info.width = F32_0 /\ call.frame_info.height_x = F32_m2
    /\ call.frame_info.height = F32_1
    /\ call.ret.rot = 270

\* C27: each emitted frame carries a delay equal to frametime * 1000 rounded to
\* the nearest whole millisecond.
C27_DelayRounded ==
    (FrameMade /\ F32Fixed(call.frame_info.frametime) >= 0) =>
        call.ret.delay_ms = (F32Fixed(call.frame_info.frametime) * 1000 + FX \div 2) \div FX

(***************************************************************************)
(* The mipmap after a failed decompress (SpecDec).                         *)
(***************************************************************************)
DecompressFailed == Decompressed /\ dres[1] # "Ok"

\* the LZ4 stage has work to do on the mipmap
Lz4Applies(m) == m.is_lz4_compressed /\ m.decompressed_bytes_count # 0

\* C28 as stated: if decompress returns an error, the mipmap's bytes, format and
\* is_lz4_compressed flag are exactly as they were before the call.
C28_ErrorLeavesMipmap ==
    DecompressFailed =>
        /\ mip1.bytes = mip0.bytes
        /\ mip1.format = mip0.format
        /\ mip1.is_lz4_compressed = mip0.is_lz4_compressed

\* C28 amended: if decompress returns an error, the mipmap's format is as it was
\* before the call; its bytes and flag are as before when the LZ4 stage failed or
\* had nothing to do, and when the block-decoding stage fails after an LZ4 stage
\* the bytes are the LZ4-decoded stream and the flag is cleared.
C28_ErrorKeepsLz4Stage ==
    DecompressFailed =>
        /\ mip1.format = mip0.format
        /\ (dres[1] = "Lz4Decompression" \/ ~Lz4Applies(mip0)) => mip1 = mip0
        /\ (dres[1] = "DxtDecompression" /\ Lz4Applies(mip0)) =>
              /\ mip1.bytes = lz4_decompress(mip0.bytes, mip0.decompressed_bytes_count).out
              /\ ~mip1.is_lz4_compressed

C28_Witness ==
    /\ DecompressFailed
    /\ dres[1] = "DxtDecompression"
    /\ mip0.format = "CompressedDXT3"
    /\ Lz4Applies(mip0)
    /\ mip1.bytes # mip0.bytes
    /\ ~mip1.is_lz4_compressed

(***************************************************************************)
(* The command line (repkg-cli main.rs, commands/extract.rs).  Paths and   *)
(* the --format argument are byte strings.  The file system accepts every  *)
(* create and every write; what the runs vary is the arguments, the input  *)
(* files and the files the output directory already holds.                 *)
(***************************************************************************)
\* str::rfind of one byte: the last index holding ch, 0 when there is none
rfind(s, ch) ==
    LET at == {i \in 1..Len(s) : s[i] = ch}
    IN  IF at = {} THEN 0 ELSE CHOOSE i \in at : \A j \in at : j <= i

\* Path::file_name for the paths of the model (no trailing separator, no "..")
file_name(path) == SubSeq(path, rfind(path, 47) + 1, Len(path))

\* Path::parent, as a string
parent(path) == SubSeq(path, 1, rfind(path, 47) - 1)

\* Path::file_stem: the name up to its last dot, a leading dot not counting
file_stem(path) ==
    LET name == file_name(path)
    IN  IF rfind(name, 46) <= 1 THEN name ELSE SubSeq(name, 1, rfind(name, 46) - 1)

\* Path::extension: what follows the last dot of the name, empty when there is none
path_extension(path) ==
    LET name == file_name(path)
    IN  IF rfind(name, 46) <= 1 THEN <<>> ELSE SubSeq(name, rfind(name, 46) + 1, Len(name))

\* Path::with_extension
with_extension(path, ext) ==
    SubSeq(path, 1, rfind(path, 47)) \o file_stem(path)
    \o (IF ext = <<>> THEN <<>> ELSE <<46>> \o ext)

\* Path::join: an absolute second path replaces the first
join(dir, path) == IF starts_with(path, <<47>>) THEN path ELSE dir \o <<47>> \o path

\* PackageEntry::name
PackageEntry_name(e) == file_stem(e.full_path)

\* PackageEntry::extension: from the last dot of the whole path, the dot included
PackageEntry_extension(e) ==
    IF rfind(e.full_path, 46) = 0 THEN <<>>
    ELSE SubSeq(e.full_path, rfind(e.full_path, 46), Len(e.full_path))

\* OutputFormat::extension
OutputFormat_extension(format) ==
    CASE format = "Png" -> <<112, 110, 103>>
      [] format = "Jpeg" -> <<106, 112, 103>>
      [] format = "Gif" -> <<103, 105, 102>>
      [] format = "WebP" -> <<119, 101, 98, 112>>
      [] format = "Bmp" -> <<98, 109, 112>>
      [] format = "Tiff" -> <<116, 105, 102, 102>>
      [] format = "Tga" -> <<116, 103, 97>>
      [] OTHER -> <<109, 112, 52>>

\* OutputFormat::parse: the format, or "" for None
OutputFormat_parse(s) ==
    LET l == to_lowercase(s)
    IN  CASE l = <<112, 110, 103>> -> "Png"
          [] l \in {<<106, 112, 103>>, <<106, 112, 101, 103>>} -> "Jpeg"
          [] l = <<103, 105, 102>> -> "Gif"
          [] l = <<119, 101, 98, 112>> -> "WebP"
          [] l = <<98, 109, 112>> -> "Bmp"
          [] l \in {<<116, 105, 102, 102>>, <<116, 105, 102>>} -> "Tiff"
          [] l \in {<<116, 103, 97>>, <<116, 97, 114, 103, 97>>} -> "Tga"
          [] l = <<109, 112, 52>> -> "Mp4"
          [] OTHER -> ""

\* should_extract, the filters as sets of lower-case extensions
should_extract(ext, ignore, only) ==
    IF only # {} THEN to_lowercase(ext) \in only
    ELSE IF ignore # {} THEN to_lowercase(ext) \notin ignore
    ELSE TRUE

\* the part of the arguments extract.rs branches on; --ignore-exts and --only-exts
\* are not given
OutDir == <<111>>

MaxJobs == 2
MaxFiles == 2

CliFormats == {<<112, 110, 103>>, <<120>>}

CliArgs ==
    [output : {OutDir}, format : {<<112, 110, 103>>}, tex_directory : BOOLEAN,
     single_dir : {FALSE}, no_convert : BOOLEAN, overwrite : BOOLEAN, dry_run : BOOLEAN,
     jobs : 1..MaxJobs]
    \cup
    [output : {OutDir}, format : CliFormats, tex_directory : {FALSE},
     single_dir : {TRUE}, no_convert : {FALSE}, overwrite : {FALSE}, dry_run : {FALSE},
     jobs : {1}]

RECURSIVE ArchiveOffset(_, _)
ArchiveOffset(es, i) == IF i <= 1 THEN 0 ELSE ArchiveOffset(es, i - 1) + Len(es[i - 1].bytes)

\* a package file of the entries es, each [path, bytes], laid out back to back
PkgArchive(magic, es) ==
    LE32(Len(magic)) \o magic \o LE32(Len(es))
    \o Flatten([i \in 1..Len(es) |->
          LE32(Len(es[i].path)) \o es[i].path \o LE32(ArchiveOffset(es, i))
          \o LE32(Len(es[i].bytes))])
    \o Flatten([i \in 1..Len(es) |-> es[i].bytes])

CliFile(path, bytes) == [path |-> path, bytes |-> bytes]

\* a 2x1 RGBA texture, one that is not a texture, and a texture without an image
TexGood ==
    ConvFile(ConvCase(0, FIF_Unknown, 3, 0, Profile(2, 1, 0, 0, 8, <<1, 2, 3, 4, 5, 6, 7, 8>>)),
             0, <<2, 1>>, <<1>>, <<>>)
TexBad == <<1, 2, 3>>
TexNoImage ==
    ConvFile(ConvCase(0, FIF_Unknown, 3, 0, Profile(2, 1, 0, 0, 0, <<>>)), 0, <<2, 1>>, <<>>, <<>>)

\* "a.tex", "a.png", "b.tex"
Path_a_tex == <<97, 46, 116, 101, 120>>
Path_a_png == <<97, 46, 112, 110, 103>>
Path_b_tex == <<98, 46, 116, 101, 120>>

\* "n.txt", a file of neither kind
CliOther == CliFile(<<110, 46, 116, 120, 116>>, <<9>>)

\* the files an input directory can hold: "1.pkg" .. "4.pkg", "a.tex", "b.tex"
\* and "s/a.tex"
CliPool ==
    <<CliFile(<<49, 46, 112, 107, 103>>, PkgArchive(PKGV0019, <<CliFile(Path_a_tex, TexGood)>>)),
      CliFile(<<50, 46, 112, 107, 103>>,
              PkgArchive(PKGV0019, <<CliFile(Path_a_png, <<9>>), CliFile(Path_a_tex, TexGood)>>)),
      CliFile(<<51, 46, 112, 107, 103>>,
              PkgArchive(PKGV0019, <<CliFile(Path_b_tex, TexBad), CliFile(Path_a_tex, TexNoImage)>>)),
      CliFile(<<52, 46, 112, 107, 103>>, PkgArchive(TEXV0005, <<>>)),
      CliFile(Path_a_tex, TexGood),
      CliFile(Path_b_tex, TexBad),
      CliFile(<<115, 47>> \o Path_a_tex, TexNoImage)>>

\* the files of the pool at the indices I, in the pool's order
RECURSIVE Listing(_, _)
Listing(I, i) ==
    IF i > Len(CliPool) THEN <<>>
    ELSE (IF i \in I THEN <<CliPool[i]>> ELSE <<>>) \o Listing(I, i + 1)

CliInputs ==
    {[kind |-> "missing", files |-> <<>>]}
    \cup {[kind |-> "file", files |-> <<f>>] :
            f \in {CliPool[i] : i \in 1..Len(CliPool)} \cup {CliOther}}
    \cup {[kind |-> "dir", files |-> Listing(I, 1)] :
            I \in {J \in SUBSET (1..Len(CliPool)) : Cardinality(J) <= MaxFiles}}

\* what the output directory holds before the run
CliExisting == SUBSET {join(OutDir, Path_a_png), join(OutDir, Path_a_tex)}

Task0 ==
    [st |-> "todo", kind |-> "", src |-> 0, res |-> "", entries |-> <<>>, i |-> 0,
     out |-> <<>>, format |-> "", runs |-> 0]

InitCli ==
    /\ comp = "cli" /\ pc = "start"
    /\ \E args \in CliArgs, input \in CliInputs, existing \in CliExisting :
          cli = [args |-> args, input |-> input, fs |-> existing, dirs |-> {},
                 writes |-> {}, tasks |-> <<>>, success_count |-> 0, error_count |-> 0,
                 pb |-> 0, surfaced |-> 0, result |-> "", exit |-> -1]
    /\ data = <<>> /\ mode = None /\ rd = NoRd /\ pkg = None /\ tex = None /\ conv = None
    /\ mip = None /\ mip0 = None /\ mip1 = None /\ dres = <<>> /\ call = None

Ext_pkg == <<112, 107, 103>>
Ext_tex == <<116, 101, 120>>

\* the arm extract_file takes for a path, "" for an extension it does not know
FileKind(path) ==
    LET ext == to_lowercase(path_extension(path))
    IN  IF ext = Ext_pkg THEN "pkg" ELSE IF ext = Ext_tex THEN "tex" ELSE ""

\* extract_directory's listing: the indices of the files whose extension is the
\* pattern, letter case aside
Collected(files, pattern) ==
    SelectSeq([i \in 1..Len(files) |-> i],
              LAMBDA i : to_lowercase(path_extension(files[i].path)) = pattern)

\* the format extract_pkg and extract_tex ask the converter for
RequestedFormat(t, output_format) ==
    IF is_gif(t) \/ is_video(t) THEN recommended_format(t) ELSE output_format

\* extract_pkg up to its entry loop
ExtractPkgOpen(args, bytes) ==
    CHOOSE ret \in {
        IF p.r.err # "" THEN [st |-> "result", res |-> p.r.err, entries |-> <<>>, mkdir |-> FALSE]
        ELSE
        CHOOSE ret2 \in {
            IF entries = <<>>
            THEN [st |-> "result", res |-> "Ok", entries |-> <<>>, mkdir |-> FALSE]
            ELSE [st |-> "entry", res |-> "", entries |-> entries, mkdir |-> ~args.dry_run]
          : entries \in {SelectSeq(p.v.entries,
                LAMBDA e : should_extract(PackageEntry_extension(e), {}, {}))}} : TRUE
      : p \in {PackageReader_read_from(bytes, TRUE)}} : TRUE

\* extract_tex up to its test of the output path
ExtractTexOpen(args, file) ==
    CHOOSE ret \in {
        IF t.r.err # "" THEN [st |-> "result", res |-> t.r.err, format |-> "", out |-> <<>>]
        ELSE
        CHOOSE ret2 \in {
            [st |-> "check", res |-> "", format |-> format,
             out |-> join(args.output,
                          file_stem(file.path) \o <<46>> \o OutputFormat_extension(format))]
          : format \in {RequestedFormat(t.v, OutputFormat_parse(args.format))}} : TRUE
      : t \in {TexReader_read_from(file.bytes, TexReader_new)}} : TRUE

\* where extract_pkg puts an entry
entry_output_path(args, e) ==
    IF args.single_dir
    THEN join(args.output, PackageEntry_name(e) \o PackageEntry_extension(e))
    ELSE join(args.output, e.full_path)

\* the conversion extract_pkg attempts after writing an entry: "none" when it
\* does not try, "failed" when reading or converting fails, else "image"
EntryConversion(args, e, codec) ==
    IF ~(e.entry_type = "Tex" /\ ~args.no_convert) THEN [st |-> "none", format |-> ""]
    ELSE
    CHOOSE ret \in {
        IF t.r.err # "" THEN [st |-> "failed", format |-> ""]
        ELSE
        CHOOSE ret2 \in {
            IF c.err # "" THEN [st |-> "failed", format |-> ""]
            ELSE [st |-> "image", format |-> c.format]
          : c \in {convert(t.v, RequestedFormat(t.v, OutputFormat_parse(args.format)),
                           codec)}} : TRUE
      : t \in {TexReader_read_from(e.bytes.v, TexReader_new)}} : TRUE

\* AtomicUsize::fetch_add: the value stored
fetch_add_Store(v, n) == n

fetch_add(v, n) == v + n

\* fs::write
fs_write(c, path, what) ==
    [c EXCEPT !.fs = c.fs \cup {path},
              !.writes = c.writes \cup {[path |-> path, existed |-> path \in c.fs,
                                          what |-> what]}]

\* the entry loop moves to its next entry, or extract_pkg returns Ok(())
NextEntry(t) ==
    IF t.i + 1 > Len(t.entries)
    THEN [t EXCEPT !.st = "result", !.res = "Ok", !.i = t.i + 1]
    ELSE [t EXCEPT !.st = "entry", !.i = t.i + 1]

Returned(t, res) == [t EXCEPT !.st = "result", !.res = res]

\* tasks a worker thread is inside of
Running(tasks) == {k \in DOMAIN tasks : tasks[k].st \notin {"todo", "done"}}

\* run, up to the call of extract_pkg or extract_tex or the parallel loop
Run ==
    /\ comp = "cli" /\ pc = "start"
    /\ LET args == cli.args
           files == cli.input.files
           pattern == IF args.tex_directory THEN Ext_tex ELSE Ext_pkg
           found == Collected(files, pattern)
       IN  IF OutputFormat_parse(args.format) = "" \/ cli.input.kind = "missing"
           THEN cli' = [cli EXCEPT !.result = "Err"] /\ pc' = "returned"
           ELSE IF cli.input.kind = "file"
           THEN IF FileKind(files[1].path) = ""
                THEN cli' = [cli EXCEPT !.result = "Ok"] /\ pc' = "returned"
                ELSE /\ cli' = [cli EXCEPT !.tasks =
                             <<[Task0 EXCEPT !.kind = FileKind(files[1].path), !.src = 1]>>]
                     /\ pc' = "file"
           ELSE IF found = <<>>
           THEN cli' = [cli EXCEPT !.result = "Ok"] /\ pc' = "returned"
           ELSE /\ cli' = [cli EXCEPT !.tasks =
                        [k \in 1..Len(found) |->
                            [Task0 EXCEPT !.kind = IF args.tex_directory THEN "tex" ELSE "pkg",
                                          !.src = found[k]]]]
                /\ pc' = "loop"
    /\ UNCHANGED <<comp, mip, mip0, mip1, dres, data, mode, rd, pkg, tex, conv, call>>

\* a thread enters extract_pkg or extract_tex for a file no thread has taken
Open ==
    \E k \in DOMAIN cli.tasks :
    /\ comp = "cli" /\ pc \in {"file", "loop"}
    /\ cli.tasks[k].st = "todo"
    /\ pc = "loop" => Cardinality(Running(cli.tasks)) < cli.args.jobs
    /\ LET t == cli.tasks[k]
           file == cli.input.files[t.src]
       IN  IF t.kind = "pkg"
           THEN \E o \in {ExtractPkgOpen(cli.args, file.bytes)} :
                   cli' = [cli EXCEPT
                      !.tasks[k] = [t EXCEPT !.st = o.st, !.res = o.res,
                                             !.entries = o.entries, !.i = 1,
                                             !.runs = t.runs + 1],
                      !.dirs = IF o.mkdir THEN cli.dirs \cup {cli.args.output} ELSE cli.dirs]
           ELSE \E o \in {ExtractTexOpen(cli.args, file)} :
                   cli' = [cli EXCEPT
                      !.tasks[k] = [t EXCEPT !.st = o.st, !.res = o.res,
                                             !.format = o.format, !.out = o.out,
                                             !.runs = t.runs + 1]]
    /\ UNCHANGED <<comp, pc, mip, mip0, mip1, dres, data, mode, rd, pkg, tex, conv, call>>

\* the tests before a write: the entry's data, the existing path, --dry-run
Check ==
    \E k \in DOMAIN cli.tasks :
    /\ comp = "cli" /\ pc \in {"file", "loop"}
    /\ cli.tasks[k].st \in {"entry", "check"}
    /\ LET t == cli.tasks[k]
           args == cli.args
       IN  IF t.kind = "pkg"
           THEN \E out \in {entry_output_path(args, t.entries[t.i])} :
                   cli' = [cli EXCEPT !.tasks[k] =
                      IF ~t.entries[t.i].bytes.some THEN Returned(t, "NoData")
                      ELSE IF ~args.overwrite /\ out \in cli.fs THEN NextEntry(t)
                      ELSE IF args.dry_run THEN NextEntry(t)
                      ELSE [t EXCEPT !.st = "raw", !.out = out]]
           ELSE cli' = [cli EXCEPT !.tasks[k] =
                      IF ~args.overwrite /\ t.out \in cli.fs THEN Returned(t, "Ok")
                      ELSE IF args.dry_run THEN Returned(t, "Ok")
                      ELSE [t EXCEPT !.st = "write"]]
    /\ UNCHANGED <<comp, pc, mip, mip0, mip1, dres, data, mode, rd, pkg, tex, conv, call>>

\* the parent directory is created; extract_pkg writes the raw entry and tries
\* the conversion, extract_tex converts and writes the image
Write ==
    \E k \in DOMAIN cli.tasks :
    /\ comp = "cli" /\ pc \in {"file", "loop"}
    /\ cli.tasks[k].st \in {"raw", "write"}
    /\ LET t == cli.tasks[k]
           c1 == [cli EXCEPT !.dirs = cli.dirs \cup {parent(t.out)}]
       IN  \E codec \in Codecs :
           IF t.kind = "pkg"
           THEN \E cv \in {EntryConversion(cli.args, t.entries[t.i], codec)} :
                   cli' = [fs_write(c1, t.out, "raw") EXCEPT
                      !.tasks[k] = IF cv.st = "image"
                                   THEN [t EXCEPT !.st = "img", !.format = cv.format]
                                   ELSE NextEntry(t),
                      !.surfaced = IF cv.st = "failed" THEN cli.surfaced + 1
                                   ELSE cli.surfaced]
           ELSE \E c \in {convert(TexReader_read_from(cli.input.files[t.src].bytes,
                                                     TexReader_new).v, t.format, codec)} :
                   cli' = IF c.err # ""
                          THEN [c1 EXCEPT !.tasks[k] = Returned(t, c.err)]
                          ELSE [fs_write(c1, t.out, "image") EXCEPT
                                   !.tasks[k] = Returned(t, "Ok")]
    /\ UNCHANGED <<comp, pc, mip, mip0, mip1, dres, data, mode, rd, pkg, tex, conv, call>>

\* extract_pkg writes the converted image next to the raw entry
WriteImage ==
    \E k \in DOMAIN cli.tasks :
    /\ comp = "cli" /\ pc \in {"file", "loop"}
    /\ cli.tasks[k].st = "img"
    /\ LET t == cli.tasks[k]
       IN  cli' = [fs_write(cli, with_extension(t.out, OutputFormat_extension(t.format)),
                            "image")
                      EXCEPT !.tasks[k] = NextEntry(t)]
    /\ UNCHANGED <<comp, pc, mip, mip0, mip1, dres, data, mode, rd, pkg, tex, conv, call>>

\* the closure of the parallel loop after its file: the counters, the message
\* of a failure, the progress bar
Count ==
    \E k \in DOMAIN cli.tasks :
    /\ comp = "cli" /\ pc = "loop"
    /\ cli.tasks[k].st = "result"
    /\ LET t == cli.tasks[k]
       IN  cli' = [cli EXCEPT
              !.success_count = IF t.res = "Ok" THEN fetch_add(cli.success_count, 1)
                                ELSE cli.success_count,
              !.error_count = IF t.res = "Ok" THEN cli.error_count
                              ELSE fetch_add(cli.error_count, 1),
              !.surfaced = IF t.res = "Ok" THEN cli.surfaced ELSE cli.surfaced + 1,
              !.pb = cli.pb + 1,
              !.tasks[k] = [t EXCEPT !.st = "done"]]
    /\ UNCHANGED <<comp, pc, mip, mip0, mip1, dres, data, mode, rd, pkg, tex, conv, call>>

\* the parallel loop is over: extract_directory prints its summary and returns
Join ==
    /\ comp = "cli" /\ pc = "loop"
    /\ \A k \in DOMAIN cli.tasks : cli.tasks[k].st = "done"
    /\ cli' = [cli EXCEPT !.result = "Ok"]
    /\ pc' = "returned"
    /\ UNCHANGED <<comp, mip, mip0, mip1, dres, data, mode, rd, pkg, tex, conv, call>>

\* extract_file(&context, input_path)? in run
Return ==
    /\ comp = "cli" /\ pc = "file"
    /\ cli.tasks[1].st = "result"
    /\ cli' = [cli EXCEPT !.result = IF cli.tasks[1].res = "Ok" THEN "Ok" ELSE "Err",
                          !.tasks[1].st = "done"]
    /\ pc' = "returned"
    /\ UNCHANGED <<comp, mip, mip0, mip1, dres, data, mode, rd, pkg, tex, conv, call>>

\* main: an error is printed and the process exits with 1, else main returns
Exit ==
    /\ comp = "cli" /\ pc = "returned"
    /\ cli' = [cli EXCEPT !.exit = IF cli.result = "Err" THEN 1 ELSE 0,
                          !.surfaced = IF cli.result = "Err" THEN cli.surfaced + 1
                                       ELSE cli.surfaced]
    /\ pc' = "exited"
    /\ UNCHANGED <<comp, mip, mip0, mip1, dres, data, mode, rd, pkg, tex, conv, call>>

NextCli ==
    \/ Run
    \/ Open
    \/ Check
    \/ Write
    \/ WriteImage
    \/ Count
    \/ Join
    \/ Return
    \/ Exit

SpecCli == InitCli /\ [][NextCli]_vars

(***************************************************************************)
(* The exit status (SpecCli).                                              *)
(***************************************************************************)
Exited == comp = "cli" /\ pc = "exited"

\* C21: the process exits with status 1 whenever an error was surfaced while
\* processing, an error on a single file of a directory extract included, and
\* with status 0 only when every file was processed without error.
C21_ExitStatus == Exited => (cli.exit = 1 <=> cli.surfaced > 0)

(***************************************************************************)
(* The parallel loop of extract_directory (SpecCli).  Every step moves a   *)
(* task forward, so a run that can always take a step comes to the end of  *)
(* the loop.                                                               *)
(***************************************************************************)
InLoop == comp = "cli" /\ pc = "loop"

LoopOver == comp = "cli" /\ pc \in {"returned", "exited"} /\ cli.tasks # <<>>
            /\ cli.input.kind = "dir"

CollectedFiles ==
    Collected(cli.input.files, IF cli.args.tex_directory THEN Ext_tex ELSE Ext_pkg)

\* every collected file is the file of one task, no thread enters a file twice,
\* and once the loop is over every file was entered once and counted once
EachFileOnce ==
    /\ (InLoop \/ LoopOver) =>
          /\ Len(cli.tasks) = Len(CollectedFiles)
          /\ \A k \in DOMAIN cli.tasks :
                /\ cli.tasks[k].src = CollectedFiles[k]
                /\ cli.tasks[k].runs <= 1
    /\ LoopOver =>
          /\ \A k \in DOMAIN cli.tasks : cli.tasks[k].runs = 1 /\ cli.tasks[k].st = "done"
          /\ cli.success_count =
                Cardinality({k \in DOMAIN cli.tasks : cli.tasks[k].res = "Ok"})
          /\ cli.error_count =
                Cardinality({k \in DOMAIN cli.tasks : cli.tasks[k].res # "Ok"})
          /\ cli.success_count + cli.error_count = Len(CollectedFiles)

\* C29: in directory extraction, under every interleaving of the worker threads,
\* each collected file is processed exactly once, a failure on one file does not
\* keep the others from being processed (inside the loop a thread can always
\* take a step, whatever the other files returned), and when the loop finishes
\* success_count + error_count is the number of collected files.
C29_ParallelLoop == EachFileOnce /\ (InLoop => ENABLED NextCli)

C29_Witness ==
    /\ LoopOver
    /\ cli.args.jobs = 2
    /\ Len(cli.tasks) = 2
    /\ cli.tasks[1].res # "Ok" /\ cli.tasks[2].res = "Ok"
    /\ cli.success_count = 1 /\ cli.error_count = 1

(***************************************************************************)
(* What the extract command writes (SpecCli).                              *)
(***************************************************************************)
\* writes of one sort that replaced a file
Replaced(what) == {w \in cli.writes : w.what = what /\ w.existed}

\* C30: without --overwrite the extract command never writes to a path that
\* already exists, be it a raw package entry or a converted image, in extract_pkg
\* and in extract_tex; with --dry-run nothing is written at all.
C30_NoReplaceNoDryWrite ==
    comp = "cli" =>
        /\ ~cli.args.overwrite => Replaced("raw") = {} /\ Replaced("image") = {}
        /\ cli.args.dry_run => cli.writes = {} /\ cli.dirs = {}

====
